---- MODULE Spec2Model ----
(***************************************************************************)
(* A model of the IonaLang compiler front-end: the aggregation tables      *)
(* (src/src/aggregation.rs) and the import-closure driver                  *)
(* (src/src/pipeline.rs).                                                  *)
(***************************************************************************)
EXTENDS Integers, Sequences, FiniteSets, TLC

\* ------------------------------------------------------------------ bounds

\* Number of distinct module names the inputs may mention.
MaxModules == 2
\* Deepest nesting of Array<..> in a declared type.
MaxArrayDepth == 2
\* Deepest nesting of Conditional statements in a function body.
MaxNest == 2
\* Number of ParsingTables::update calls in one run of TableSpec.
MaxUpdates == 2
\* Number of parse_recursively frames the call stack holds before it overflows.
MaxDepth == 4

\* ------------------------------------------------------------------ values

ModuleNames == <<"main", "npc", "world", "items", "tools">>
Modules == {ModuleNames[i] : i \in 1..MaxModules}

Range(s) == {s[i] : i \in DOMAIN s}

\* parser.rs Type: a type is the sequence of its constructors, outermost
\* first, ending with the primitive (or with Custom/Generic and its name).
Void == <<"Void">>
Integer == <<"Integer">>
Boolean == <<"Boolean">>
String == <<"String">>
Auto == <<"Auto">>
Float == <<"Float">>
Size == <<"Size">>
Byte == <<"Byte">>
CType == <<"CType">>
Array(t) == <<"Array">> \o t
Shared(t) == <<"Shared">> \o t
Custom(name) == <<"Custom", name>>
Generic(name) == <<"Generic", name>>
Map(t) == <<"Map">> \o t

RECURSIVE ArrayOfDepth(_, _)
ArrayOfDepth(t, k) == IF k = 0 THEN t ELSE Array(ArrayOfDepth(t, k - 1))

Field(name, field_type) == [name |-> name, field_type |-> field_type]

Struct(name, fields, properties) ==
    [kind |-> "StructDeclaration", name |-> name, fields |-> fields,
     properties |-> properties]

Enum(name, fields, properties) ==
    [kind |-> "EnumDeclaration", name |-> name, fields |-> fields,
     properties |-> properties]

Import(file, items) ==
    [kind |-> "ImportStatement", file |-> file, items |-> items]

Function(name, args, returns, properties, statements) ==
    [kind |-> "FunctionDeclaration", name |-> name, args |-> args,
     returns |-> returns, properties |-> properties, statements |-> statements]

VariableDeclaration(name, type_) ==
    [kind |-> "VariableDeclaration", name |-> name, type_ |-> type_]

Branch(computations) == [computations |-> computations]

Conditional(branches) == [kind |-> "Conditional", branches |-> branches]

Return == [kind |-> "Return"]

FunctionCall == [kind |-> "FunctionCall"]

\* ------------------------------------------------------------------ maps

\* HashMap::new
EmptyMap == << >>

\* HashMap::insert
Put(map, k, v) == [x \in (DOMAIN map) \cup {k} |-> IF x = k THEN v ELSE map[x]]

\* HashMap::entry(k).or_insert(v)
OrInsert(map, k, v) == IF k \in DOMAIN map THEN map ELSE Put(map, k, v)

\* HashMap::get, with the empty set standing for None
Get(map, k) == IF k \in DOMAIN map THEN map[k] ELSE {}

\* ------------------------------------------------------------------ ModuleTable

\* ModuleTable::new
ModuleTable_new ==
    [parsing_status |-> EmptyMap, imported_items |-> EmptyMap,
     public_items |-> EmptyMap, exported_items |-> EmptyMap]

\* A faulty import arm: the entry of an already known file is overwritten
\* (insert instead of entry().or_insert, and a fresh item set instead of extend).
ModuleTable_import_overwrite(self, i) ==
    [self EXCEPT
        !.parsing_status = Put(@, i.file, FALSE),
        !.imported_items = Put(@, i.file, Range(i.items))]

\* The ImportStatement arm of ModuleTable::update.
ModuleTable_import(self, i) ==
    [self EXCEPT
        !.parsing_status = OrInsert(@, i.file, FALSE),
        !.imported_items =
            IF i.file \in DOMAIN @
            THEN Put(@, i.file, @[i.file] \cup Range(i.items))
            ELSE Put(@, i.file, Range(i.items))]

\* entry(module_name).or_insert_with(HashSet::new).insert(name)
InsertItem(map, module_name, name) ==
    Put(map, module_name, Get(map, module_name) \cup {name})

\* A faulty declaration arm: the Public test reads the Export flag.
ModuleTable_declaration_one_flag(self, d, module_name) ==
    LET exported == IF "Export" \in d.properties
                    THEN InsertItem(self.exported_items, module_name, d.name)
                    ELSE self.exported_items
        public == IF "Export" \in d.properties
                  THEN InsertItem(self.public_items, module_name, d.name)
                  ELSE self.public_items
    IN  [self EXCEPT !.exported_items = exported, !.public_items = public]

\* The EnumDeclaration, StructDeclaration and FunctionDeclaration arms of
\* ModuleTable::update (the three arms are the same code on e, s and f).
ModuleTable_declaration(self, d, module_name) ==
    LET exported == IF "Export" \in d.properties
                    THEN InsertItem(self.exported_items, module_name, d.name)
                    ELSE self.exported_items
        public == IF "Public" \in d.properties
                  THEN InsertItem(self.public_items, module_name, d.name)
                  ELSE self.public_items
    IN  [self EXCEPT !.exported_items = exported, !.public_items = public]

\* ModuleTable::update: the loop over the nodes of the AST.
RECURSIVE ModuleTable_update(_, _, _)
ModuleTable_update(self, ast, module_name) ==
    IF ast = << >> THEN self
    ELSE LET node == Head(ast)
             next == CASE node.kind = "ImportStatement" ->
                            ModuleTable_import(self, node)
                       [] node.kind = "EnumDeclaration" ->
                            ModuleTable_declaration(self, node, module_name)
                       [] node.kind = "StructDeclaration" ->
                            ModuleTable_declaration(self, node, module_name)
                       [] node.kind = "FunctionDeclaration" ->
                            ModuleTable_declaration(self, node, module_name)
         IN  ModuleTable_update(next, Tail(ast), module_name)

\* ------------------------------------------------------------------ TypeTable

\* TypeTable::new
TypeTable_new ==
    [type_list |-> {}, types_used_by_module |-> EmptyMap,
     new_structs |-> EmptyMap, new_enums |-> EmptyMap]

\* The walk of TypeTable::update carries the table and the local set
\* types_used_by_module (the external_type_tracker of process_statement).
Walk(self, tracker) == [self |-> self, tracker |-> tracker]

InsertType(w, t) == Walk([w.self EXCEPT !.type_list = @ \cup {t}], w.tracker)

InsertBoth(w, t) ==
    Walk([w.self EXCEPT !.type_list = @ \cup {t}], w.tracker \cup {t})

RECURSIVE InsertFields(_, _)
InsertFields(w, fields) ==
    IF fields = << >> THEN w
    ELSE InsertFields(InsertBoth(w, Head(fields).field_type), Tail(fields))

\* A faulty process_statement: a Conditional is not entered.
process_statement_flat(w, statement) ==
    IF statement.kind = "VariableDeclaration"
    THEN InsertBoth(w, statement.type_)
    ELSE w

\* TypeTable::process_statement
RECURSIVE process_statement(_, _)
RECURSIVE process_statements(_, _)
RECURSIVE process_branches(_, _)
process_statement(w, statement) ==
    CASE statement.kind = "VariableDeclaration" -> InsertBoth(w, statement.type_)
      [] statement.kind = "Conditional" -> process_branches(w, statement.branches)
      [] OTHER -> w

\* for inner_statement in &branch.computations, and for st in f.statements
process_statements(w, statements) ==
    IF statements = << >> THEN w
    ELSE process_statements(process_statement(w, Head(statements)), Tail(statements))

\* for branch in branches
process_branches(w, branches) ==
    IF branches = << >> THEN w
    ELSE process_branches(process_statements(w, Head(branches).computations),
                          Tail(branches))

\* The StructDeclaration arm of TypeTable::update.
TypeTable_struct(w, s) ==
    LET stored == Walk([w.self EXCEPT !.new_structs = Put(@, s.name, s)], w.tracker)
    IN  InsertFields(InsertType(stored, Custom(s.name)), s.fields)

\* The EnumDeclaration arm of TypeTable::update.
TypeTable_enum(w, e) ==
    LET stored == Walk([w.self EXCEPT !.new_enums = Put(@, e.name, e)], w.tracker)
    IN  InsertFields(InsertType(stored, Custom(e.name)), e.fields)

\* The FunctionDeclaration arm of TypeTable::update: the return type goes to
\* type_list only.
TypeTable_function(w, f) ==
    process_statements(InsertFields(InsertType(w, f.returns), f.args), f.statements)

\* The loop over the nodes of the AST in TypeTable::update.
RECURSIVE TypeTable_walk(_, _)
TypeTable_walk(w, ast) ==
    IF ast = << >> THEN w
    ELSE LET node == Head(ast)
             next == CASE node.kind = "StructDeclaration" -> TypeTable_struct(w, node)
                       [] node.kind = "EnumDeclaration" -> TypeTable_enum(w, node)
                       [] node.kind = "FunctionDeclaration" -> TypeTable_function(w, node)
                       [] node.kind = "ImportStatement" -> w
         IN  TypeTable_walk(next, Tail(ast))

\* A faulty TypeTable::update: the local set starts from the global type_list
\* instead of HashSet::new().
TypeTable_update_seeded(self, ast, module_name) ==
    LET w == TypeTable_walk(Walk(self, self.type_list), ast)
    IN  [w.self EXCEPT !.types_used_by_module = Put(@, module_name, w.tracker)]

\* TypeTable::update
TypeTable_update(self, ast, module_name) ==
    LET w == TypeTable_walk(Walk(self, {}), ast)
    IN  [w.self EXCEPT !.types_used_by_module = Put(@, module_name, w.tracker)]

\* ------------------------------------------------------------------ ParsingTables

\* ParsingTables::new
ParsingTables_new == [modules |-> ModuleTable_new, types |-> TypeTable_new]

\* ParsingTables::update
ParsingTables_update(self, nodes, module_name) ==
    [modules |-> ModuleTable_update(self.modules, nodes, module_name),
     types |-> TypeTable_update(self.types, nodes, module_name)]

\* ------------------------------------------------------------------ inputs

ItemLists == {<<"Creature">>, <<"Animal", "Creature">>}

PropertySets == SUBSET {"Public", "Export"}

RECURSIVE SharedOfDepth(_, _)
SharedOfDepth(t, k) == IF k = 0 THEN t ELSE Shared(SharedOfDepth(t, k - 1))

\* A function body whose Conditional statements nest d deep below level k;
\* level k declares a variable of type Shared^k<Auto>.
RECURSIVE NestedBody(_, _)
NestedBody(k, d) ==
    IF k >= d
    THEN <<VariableDeclaration("x", SharedOfDepth(Auto, k)), Return>>
    ELSE <<VariableDeclaration("x", SharedOfDepth(Auto, k)),
           Conditional(<<Branch(<<FunctionCall>>), Branch(NestedBody(k + 1, d))>>)>>

\* The program of aggregation.rs tests::PROGRAM, as parse_all returns it.
TestProgram ==
    <<Import("npc", <<"Creature">>),
      Struct("Animal",
             <<Field("legs", Integer), Field("hair", Boolean), Field("feathers", Boolean)>>,
             {"Public", "Export"}),
      Function("do_nothing", << >>, Void, {"Public"}, << >>),
      Enum("Status", <<Field("Alive", Void), Field("Dead", Void)>>, {"Export"})>>

TwoFunctions ==
    <<Function("first", << >>, Integer, {"Export"}, << >>),
      Function("second", <<Field("s", String)>>, Void, {"Public"}, << >>)>>

ImportPrograms == {<<Import(file, items)>> : file \in Modules, items \in ItemLists}

StructPrograms ==
    {<<Struct("Animal",
              <<Field("legs", Integer),
                Field("tags", ArrayOfDepth(String, MaxArrayDepth))>>,
              properties)>> : properties \in PropertySets}

EnumPrograms ==
    {<<Enum("Status",
            <<Field("Alive", Void), Field("Held", Array(Integer))>>,
            properties)>> : properties \in PropertySets}

FunctionPrograms ==
    {<<Function("do_nothing", << >>, Void, properties, << >>)>> :
        properties \in PropertySets}
    \cup
    {<<Function("foo", <<Field("a", Integer), Field("b", String)>>, Boolean, {},
                NestedBody(0, d))>> : d \in 0..MaxNest}

\* The ASTs handed to ParsingTables::update.
ASTs ==
    ImportPrograms \cup StructPrograms \cup EnumPrograms \cup FunctionPrograms
    \cup {TestProgram, TwoFunctions}

\* ------------------------------------------------------------------ files

\* A std::path::Path: the file stem and the extension after the last dot.
Path(stem, ext) == [stem |-> stem, ext |-> ext]

\* Path::file_stem
file_stem(path) == path.stem

\* Path::new(module) for an import name: an identifier holds no dot, so the
\* path has no extension.
Path_new(module) == Path(module, "")

\* The paths a run can read: every import name, and main.iona.
Paths == {Path_new(m) : m \in Modules} \cup {Path(ModuleNames[1], "iona")}

\* The AST of a file that imports the modules of the set, in name order.
ImportsOf(imports) ==
    LET all == [i \in 1..MaxModules |-> Import(ModuleNames[i], <<"Creature">>)]
        Chosen(n) == n.file \in imports
    IN  SelectSeq(all, Chosen)

FileASTs == {ImportsOf(imports) : imports \in SUBSET Modules}

\* ------------------------------------------------------------------ codegen_c

\* Deepest nesting of Array<..> in a type given to the code generator.
MaxTemplateDepth == 3
\* Largest number of types in a type_list given to the code generator.
MaxTypes == 3

\* The outcome of todo!(): the call does not return.
Todo == <<"todo!">>

RECURSIVE write_fn_arg_type(_)
\* write_fn_arg_type, with boxed_type_name for the Array arm: the C-side name
\* of a type as the words it is made of, or Todo for a type of the `_` arm.
write_fn_arg_type(input) ==
    CASE Head(input) = "String" -> <<"String">>
      [] Head(input) = "Byte" -> <<"Byte">>
      [] Head(input) = "Integer" -> <<"Integer">>
      [] Head(input) = "Float" -> <<"Float">>
      [] Head(input) = "Boolean" -> <<"bool">>
      [] Head(input) = "Custom" -> <<input[2]>>
      [] Head(input) = "Generic" -> <<"void*">>
      [] Head(input) = "Void" -> <<"void">>
      [] Head(input) = "Array" ->
            LET inner == write_fn_arg_type(Tail(input))
            IN  IF inner = Todo THEN Todo ELSE inner \o <<"Array">>
      [] OTHER -> Todo

\* str::to_lowercase on the words of a C-side name.
to_lowercase(name) ==
    [i \in DOMAIN name |->
        CASE name[i] = "String" -> "string"
          [] name[i] = "Integer" -> "integer"
          [] name[i] = "Array" -> "array"
          [] name[i] = "Animal" -> "animal"
          [] OTHER -> name[i]]

\* MonomorphizedArray::new: the array template filled in for an element type.
MonomorphizedArray_new(type_) ==
    [type_ |-> type_,
     name |-> write_fn_arg_type(type_),
     header_name |-> <<"gen_">> \o to_lowercase(write_fn_arg_type(type_))
                        \o <<"_array.h">>]

\* collect_array_types without its recursive call.
collect_array_types_outermost(t, set) ==
    IF Head(t) = "Array" THEN set \cup {t} ELSE set

RECURSIVE collect_array_types(_, _)
\* collect_array_types: the set with t and every Array type directly below it.
collect_array_types(t, set) ==
    IF Head(t) = "Array"
    THEN collect_array_types(Tail(t), set \cup {t})
    ELSE set

RECURSIVE CollectAll(_, _)
\* The first loop of generate_templated_libs over the types of type_list.
CollectAll(types, set) ==
    IF types = {}
    THEN set
    ELSE LET t == CHOOSE t \in types : TRUE
         IN  CollectAll(types \ {t}, collect_array_types(t, set))

RECURSIVE PushAll(_, _)
\* The second loop of generate_templated_libs: one push for every element the
\* set iterator yields, in the iterator's order.
PushAll(all_array_types, generated_libs) ==
    IF all_array_types = {}
    THEN generated_libs
    ELSE LET t == CHOOSE t \in all_array_types : TRUE
         IN  PushAll(all_array_types \ {t},
                     Append(generated_libs, MonomorphizedArray_new(Tail(t))))

\* generate_templated_libs: the instances it returns, or panic when
\* MonomorphizedArray::new reaches todo!() for an element type.
generate_templated_libs(type_table) ==
    LET all_array_types == CollectAll(type_table.type_list, {})
        generated_libs == PushAll(all_array_types, << >>)
    IN  IF \E i \in DOMAIN generated_libs : generated_libs[i].name = Todo
        THEN [panic |-> TRUE, generated_libs |-> << >>]
        ELSE [panic |-> FALSE, generated_libs |-> generated_libs]

\* The types a type_list given to the code generator is made of: the
\* primitives and a struct, under up to MaxTemplateDepth Array constructors,
\* and Shared types around and inside an Array.
TemplateTypes ==
    {ArrayOfDepth(t, k) : t \in {Integer, String, Boolean}, k \in 0..MaxTemplateDepth}
    \cup {Custom("Animal"), Array(Custom("Animal")),
          Shared(Array(Integer)), Array(Shared(Array(Integer)))}

TypeLists == {types \in SUBSET TemplateTypes : Cardinality(types) <= MaxTypes}

\* ------------------------------------------------------------------ diagnostics

\* new_error_simple that keeps the file of the position only.
Diagnostic_at_file_start(message, position) ==
    [level |-> "Error", message |-> message,
     position |-> [position EXCEPT !.line = 0, !.column = 0]]

\* Diagnostic::new_error_simple
Diagnostic_new_error_simple(message, position) ==
    [level |-> "Error", message |-> message, position |-> position]

\* ------------------------------------------------------------------ lexer

\* Longest text, in characters, among the texts enumerated for the lexer.
MaxLen == 3

\* A text is the sequence of its characters.
NL == "\n"
TAB == "\t"
Quote == "\""

\* char::is_alphabetic, char::is_numeric and char::is_whitespace on the
\* characters of the texts.
Letters ==
    {"a", "b", "c", "d", "e", "f", "g", "h", "i", "j", "k", "l", "m", "n", "o",
     "p", "q", "r", "s", "t", "u", "v", "w", "x", "y", "z",
     "A", "B", "C", "D", "E", "F", "G", "I", "M", "O", "P", "R", "S", "U", "V"}
Digits == {"0", "1", "2", "3", "4", "5", "6", "7", "8", "9"}
is_alphabetic(c) == c \in Letters
is_numeric(c) == c \in Digits
is_alphanumeric(c) == is_alphabetic(c) \/ is_numeric(c)
is_whitespace(c) == c \in {" ", TAB, NL}

\* lexer.rs Symbol: the tag, followed by the value the symbol carries.
Sym(kind) == <<kind>>
Identifier(name) == <<"Identifier", name>>
StringLiteral(content) == <<"StringLiteral", content>>
IntegerSymbol(n) == <<"Integer", n>>
FloatSymbol(f) == <<"Float", f>>
Space == Sym("Space")
NewLine == Sym("NewLine")

SourcePosition(filename, line, column) ==
    [filename |-> filename, line |-> line, column |-> column]

\* Token::new
Token(symbol, pos) == [symbol |-> symbol, pos |-> pos]

\* Lexer::new
Lexer_new(filename) ==
    [token_stream |-> << >>,
     position |-> SourcePosition(filename, 0, 0),
     diagnostics |-> << >>]

\* Lexer::simple_add
simple_add(self, symbol, input_len) ==
    [self EXCEPT !.token_stream = Append(@, Token(symbol, self.position)),
                 !.position.column = @ + input_len]

\* The single-character arms of the match of Lexer::lex.
Punctuation ==
    (";" :> "Semicolon") @@ ("{" :> "BraceOpen") @@ ("}" :> "BraceClose")
    @@ ("[" :> "BracketOpen") @@ ("]" :> "BracketClose")
    @@ ("<" :> "LeftAngle") @@ (">" :> "RightAngle")
    @@ ("(" :> "ParenOpen") @@ (")" :> "ParenClose")
    @@ ("-" :> "Dash") @@ ("." :> "Dot") @@ (":" :> "Colon") @@ ("@" :> "Tag")
    @@ ("," :> "Comma") @@ ("+" :> "Plus") @@ ("/" :> "Divide")
    @@ ("*" :> "Times") @@ ("%" :> "Modulo")

\* The reserved words of the match on word.as_str().
Keywords ==
    (<<"i", "m", "p", "o", "r", "t">> :> "Import")
    @@ (<<"s", "t", "r", "u", "c", "t">> :> "Struct")
    @@ (<<"e", "n", "u", "m">> :> "Enum")
    @@ (<<"f", "n">> :> "Function")
    @@ (<<"w", "i", "t", "h">> :> "With")
    @@ (<<"m", "e", "t", "a", "d", "a", "t", "a">> :> "Metadata")
    @@ (<<"c", "o", "n", "t", "r", "a", "c", "t", "s">> :> "Contracts")
    @@ (<<"I", "n">> :> "In")
    @@ (<<"O", "u", "t">> :> "Out")
    @@ (<<"I", "s">> :> "Properties")
    @@ (<<"D", "e", "r", "i", "v", "e", "s">> :> "Traits")
    @@ (<<"U", "s", "e", "s">> :> "Permissions")
    @@ (<<"G", "e", "n", "e", "r", "i", "c">> :> "Generic")

\* The number of characters a `while let Some(&ch) = chars.peek()` loop
\* consumes, given for every character whether the loop goes on at it.
LeadingRun(goes) ==
    LET stops == {i \in 1..Len(goes) : ~goes[i]}
    IN  IF stops = {}
        THEN Len(goes)
        ELSE (CHOOSE i \in stops : \A j \in stops : i <= j) - 1

\* The characters left after n calls of chars.next().
Advance(chars, n) == SubSeq(chars, n + 1, Len(chars))

\* The value of an ASCII digit.
Digit(d) == CHOOSE n \in 0..9 : ToString(n) = d

RECURSIVE DecimalValue(_)
\* The value of a string of ASCII digits.
DecimalValue(number) ==
    IF number = << >>
    THEN 0
    ELSE 10 * DecimalValue(SubSeq(number, 1, Len(number) - 1))
         + Digit(number[Len(number)])

\* The digits of i64::MAX.
I64Max ==
    <<"9", "2", "2", "3", "3", "7", "2", "0", "3", "6", "8", "5", "4", "7", "7",
      "5", "8", "0", "7">>

\* str::parse::<i64> on a lexeme of digits: Err when the value is above
\* i64::MAX.
parse_integer(number) ==
    LET digits == Advance(number, LeadingRun([i \in DOMAIN number |-> number[i] = "0"]))
        k == LeadingRun([i \in DOMAIN I64Max |-> digits[i] = I64Max[i]]) + 1
        fits == \/ Len(digits) < Len(I64Max)
                \/ /\ Len(digits) = Len(I64Max)
                   /\ k > Len(I64Max) \/ Digit(digits[k]) < Digit(I64Max[k])
    IN  IF fits
        THEN [ok |-> TRUE, value |-> DecimalValue(number)]
        ELSE [ok |-> FALSE, value |-> 0]

\* str::parse::<f64> on a lexeme of digits and dots that starts with a digit:
\* Ok for exactly one dot, and the f64 is written as its decimal lexeme.
parse_float(number) ==
    IF Cardinality({i \in DOMAIN number : number[i] = "."}) = 1
    THEN [ok |-> TRUE, value |-> number]
    ELSE [ok |-> FALSE, value |-> << >>]

\* const LEXER_STRING_LEN_LIMIT of the string arm.
LEXER_STRING_LEN_LIMIT == 5120

\* The result of one iteration of the outer loop of Lexer::lex: the lexer, the
\* characters left and whether the iteration panicked.
LexResult(self, chars, panic) == [self |-> self, chars |-> chars, panic |-> panic]

\* The '#' arm: the comment is consumed up to the line break.
lex_comment(self, chars) ==
    LexResult(self,
              Advance(chars, LeadingRun([i \in DOMAIN chars |-> chars[i] # NL])),
              FALSE)

\* The '\n' arm.
lex_newline(self, chars) ==
    LET added == simple_add(self, NewLine, 1)
    IN  LexResult([added EXCEPT !.position.line = @ + 1, !.position.column = 0],
                  Advance(chars, 1), FALSE)

\* The is_alphabetic arm: a reserved word or an identifier.
lex_word(self, chars) ==
    LET word_len == LeadingRun([i \in DOMAIN chars |->
                                  is_alphanumeric(chars[i]) \/ chars[i] = "_"])
        word == SubSeq(chars, 1, word_len)
        symbol == IF word \in DOMAIN Keywords
                  THEN Sym(Keywords[word])
                  ELSE Identifier(word)
    IN  LexResult(simple_add(self, symbol, word_len), Advance(chars, word_len), FALSE)

\* The is_numeric arm: an integer or a float, or nothing for a lexeme that
\* does not parse.
lex_number(self, chars) ==
    LET len == LeadingRun([i \in DOMAIN chars |->
                             is_numeric(chars[i]) \/ chars[i] = "."])
        number == SubSeq(chars, 1, len)
        has_dot == \E i \in DOMAIN number : number[i] = "."
        f == parse_float(number)
        n == parse_integer(number)
        added == IF has_dot
                 THEN IF f.ok THEN simple_add(self, FloatSymbol(f.value), len) ELSE self
                 ELSE IF n.ok THEN simple_add(self, IntegerSymbol(n.value), len) ELSE self
    IN  LexResult(added, Advance(chars, len), FALSE)

\* The '"' arm: the content up to the closing quote or the end of the text;
\* counter passes the limit when the content is longer than it.
lex_string(self, chars) ==
    LET string_len == LeadingRun([i \in DOMAIN Tail(chars) |-> Tail(chars)[i] # Quote])
        new_string == SubSeq(Tail(chars), 1, string_len)
    IN  IF string_len > LEXER_STRING_LEN_LIMIT
        THEN LexResult(self, Advance(chars, LEXER_STRING_LEN_LIMIT + 2), TRUE)
        ELSE LexResult(simple_add(self, StringLiteral(new_string), string_len),
                       Advance(chars, string_len + 2), FALSE)

\* The `other` arm.
lex_other(self, chars) ==
    LexResult(
        [self EXCEPT !.diagnostics =
            Append(@, Diagnostic_new_error_simple(
                          <<"Unexpected symbol in program", Head(chars)>>,
                          self.position))],
        Advance(chars, 1), FALSE)

\* One iteration of `while let Some(&c) = chars.peek()` of Lexer::lex.
lex_one(self, chars) ==
    LET c == Head(chars)
    IN  IF c = "#" THEN lex_comment(self, chars)
        ELSE IF c = NL THEN lex_newline(self, chars)
        ELSE IF c = TAB
        THEN LexResult(simple_add(self, Space, 4), Advance(chars, 1), FALSE)
        ELSE IF is_whitespace(c)
        THEN LexResult(simple_add(self, Space, 1), Advance(chars, 1), FALSE)
        ELSE IF c \in DOMAIN Punctuation
        THEN LexResult(simple_add(self, Sym(Punctuation[c]), 1), Advance(chars, 1), FALSE)
        ELSE IF is_alphabetic(c) THEN lex_word(self, chars)
        ELSE IF is_numeric(c) THEN lex_number(self, chars)
        ELSE IF c = Quote THEN lex_string(self, chars)
        ELSE lex_other(self, chars)

\* lex_finish that adds the NewLine only to a stream that does not end in one.
lex_finish_unless_newline(self) ==
    IF self.token_stream # << >>
       /\ self.token_stream[Len(self.token_stream)].symbol = NewLine
    THEN self
    ELSE simple_add([self EXCEPT !.position.line = @ + 1, !.position.column = 0],
                    NewLine, 1)

\* The end of Lexer::lex: the trailing NewLine.
lex_finish(self) ==
    simple_add([self EXCEPT !.position.line = @ + 1, !.position.column = 0],
               NewLine, 1)

\* The characters the enumerated texts are made of: a letter, a digit, a dot,
\* a quote, a comment sign, a line break, a tab, a space, an operator and a
\* character no arm knows.
Alphabet == {"a", "1", ".", Quote, "#", NL, TAB, " ", "+", "$"}

RECURSIVE TextsOfLength(_)
TextsOfLength(n) ==
    IF n = 0
    THEN {<< >>}
    ELSE {Append(text, c) : text \in TextsOfLength(n - 1), c \in Alphabet}

\* A quoted string literal of n characters of content.
Literal(n) == <<Quote>> \o [i \in 1..n |-> "a"] \o <<Quote>>

\* The texts given to the lexer: every text of up to MaxLen characters, the
\* text of tests::lex_add_infix, and string literals at and past the limit.
Texts ==
    UNION {TextsOfLength(n) : n \in 0..MaxLen}
    \cup {<<"1", " ", "+", " ", "2">>}
    \cup {Literal(LEXER_STRING_LEN_LIMIT), Literal(LEXER_STRING_LEN_LIMIT + 1)}

\* ------------------------------------------------------------------ parser: values

\* expression_parser.rs Expr
IntegerLiteral(n) == [kind |-> "IntegerLiteral", value |-> n]
FloatLiteral(f) == [kind |-> "FloatLiteral", value |-> f]
StringLiteralExpr(s) == [kind |-> "StringLiteral", value |-> s]
Variable(name) == [kind |-> "Variable", name |-> name]
PropertyAccess(object, property) ==
    [kind |-> "PropertyAccess", object |-> object, property |-> property]
FunctionCallExpr(name, arguments) ==
    [kind |-> "FunctionCall", name |-> name, arguments |-> arguments]
MethodCall(object, method, arguments) ==
    [kind |-> "MethodCall", object |-> object, method |-> method,
     arguments |-> arguments]
BinaryOp(left, operator, right) ==
    [kind |-> "BinaryOp", left |-> left, operator |-> operator, right |-> right]
UnaryOp(operator, operand) ==
    [kind |-> "UnaryOp", operator |-> operator, operand |-> operand]
IndexAccess(object, index) ==
    [kind |-> "IndexAccess", object |-> object, index |-> index]

\* Option: None, and Some(value)
None == << >>
Some(value) == <<value>>
\* The () of ParserOutput<()>
Unit == "()"

\* ------------------------------------------------------------------ parser: primitives

\* The cap on recursion_counter in parse_expr.
RecursionLimit == 30

\* Parser::new, and panic for a parser whose call has panicked. The trace
\* strings are left out: add_trace is the read of tokens[offset] it makes.
Parser_new(tokens) ==
    [tokens |-> tokens, offset |-> 0, recursion_counter |-> 0, panic |-> FALSE]

\* self.tokens[self.offset] is out of bounds, or a panic is unwinding: every
\* read of the current token panics.
Dead(self) == self.panic \/ self.offset >= Len(self.tokens)

Panic(self) == [self EXCEPT !.panic = TRUE]

\* ParserOutput, with the parser as the call leaves it.
ParserOutput(self, output, diagnostics) ==
    [p |-> self, output |-> output, diagnostics |-> diagnostics]

\* ParserOutput::okay
okay(self, output) == ParserOutput(self, Some(output), << >>)

\* ParserOutput::err
err(self, diagnostics) == ParserOutput(self, None, diagnostics)

\* A call that panicked.
Aborted(self) == ParserOutput(Panic(self), None, << >>)

\* ParserOutput::transmute_error
transmute_error(out) == ParserOutput(out.p, None, out.diagnostics)

\* and_then that returns the diagnostics of f alone.
and_then_forgetful(out, next) ==
    IF out.output # None
    THEN ParserOutput(next.p, next.output, next.diagnostics)
    ELSE ParserOutput(out.p, None, out.diagnostics)

\* ParserOutputExt::and_then, next being f(value) run on the parser out left.
and_then(out, next) ==
    IF out.output # None
    THEN ParserOutput(next.p, next.output, out.diagnostics \o next.diagnostics)
    ELSE ParserOutput(out.p, None, out.diagnostics)

\* ParserOutputExt::map, value being f(out.output.unwrap()).
map(out, value) ==
    IF out.output # None
    THEN ParserOutput(out.p, Some(value), out.diagnostics)
    ELSE ParserOutput(out.p, None, out.diagnostics)

\* Parser::peek, for a parser that is not Dead.
peek(self) ==
    IF Dead(self)
    THEN Token(Sym("(panic)"), SourcePosition("", 0, 0))
    ELSE self.tokens[self.offset + 1]

\* Parser::consume: the parser after it.
consume(self) ==
    IF Dead(self) THEN Panic(self) ELSE [self EXCEPT !.offset = @ + 1]

\* Parser::single_error
single_error(self, message) ==
    IF Dead(self)
    THEN Aborted(self)
    ELSE err(self, <<Diagnostic_new_error_simple(message, peek(self).pos)>>)

RECURSIVE skip_whitespace(_)
\* Parser::skip_whitespace: it never consumes the last token.
skip_whitespace(self) ==
    IF Dead(self)
    THEN Panic(self)
    ELSE IF peek(self).symbol \in {Space, NewLine} /\ self.offset < Len(self.tokens) - 1
    THEN skip_whitespace(consume(self))
    ELSE self

\* The second skip_whitespace of Parser::with_whitespace, after f returned out.
with_whitespace_after(out) == [out EXCEPT !.p = skip_whitespace(@)]

\* Parser::then_ignore
then_ignore(self, expected) ==
    IF Dead(self)
    THEN Aborted(self)
    ELSE IF peek(self).symbol = expected
    THEN okay(consume(self), Unit)
    ELSE err(self, <<Diagnostic_new_error_simple(
                        <<"expected {:?}, but found {:?}", expected, peek(self).symbol>>,
                        peek(self).pos)>>)

\* Parser::then_identifier
then_identifier(self) ==
    IF Dead(self)
    THEN Aborted(self)
    ELSE IF peek(self).symbol[1] = "Identifier"
    THEN okay(consume(self), peek(self).symbol[2])
    ELSE err(consume(self),
             <<Diagnostic_new_error_simple(
                   <<"expected an identifier, but found {:?}", peek(self).symbol>>,
                   peek(self).pos)>>)

RECURSIVE skip_to_next_newline(_)
\* Parser::skip_to_next_newline: the parser after the next NewLine.
skip_to_next_newline(self) ==
    IF Dead(self)
    THEN Panic(self)
    ELSE IF peek(self).symbol = NewLine
    THEN consume(self)
    ELSE skip_to_next_newline(consume(self))

RECURSIVE lookahead_from(_, _)
\* The loop of lookahead, future_offset being the offset it has reached.
lookahead_from(self, future_offset) ==
    IF future_offset >= Len(self.tokens)
    THEN Token(Sym("(panic)"), SourcePosition("", 0, 0))
    ELSE IF future_offset < Len(self.tokens) - 1
            /\ self.tokens[future_offset + 1].symbol \in {Space, NewLine}
    THEN lookahead_from(self, future_offset + 1)
    ELSE self.tokens[future_offset + 1]

\* Parser::lookahead: the next token that is not whitespace, or the last one.
lookahead(self) ==
    IF self.panic
    THEN Token(Sym("(panic)"), SourcePosition("", 0, 0))
    ELSE lookahead_from(self, self.offset)

\* ------------------------------------------------------------------ parser: expressions

\* precedence with + and - binding tighter than * / %.
precedence_additive_first(op) ==
    CASE op = Sym("Or") -> 1
      [] op = Sym("And") -> 2
      [] op \in {Sym("LeftAngle"), Sym("RightAngle")} -> 3
      [] op \in {Sym("Plus"), Sym("Dash")} -> 5
      [] op \in {Sym("Times"), Sym("Divide"), Sym("Modulo")} -> 4
      [] op = Sym("Dot") -> 6
      [] OTHER -> 0

\* expression_parser.rs precedence
precedence(op) ==
    CASE op = Sym("Or") -> 1
      [] op = Sym("And") -> 2
      [] op \in {Sym("LeftAngle"), Sym("RightAngle")} -> 3
      [] op \in {Sym("Plus"), Sym("Dash")} -> 4
      [] op \in {Sym("Times"), Sym("Divide"), Sym("Modulo")} -> 5
      [] op = Sym("Dot") -> 6
      [] OTHER -> 0

\* The symbols of the first arm of parse_infix, and the operators
\* parse_binary_operator gives for them.
BinaryOperators ==
    (Sym("Plus") :> "Add") @@ (Sym("Dash") :> "Subtract")
    @@ (Sym("Times") :> "Multiply") @@ (Sym("Divide") :> "Divide")
    @@ (Sym("Modulo") :> "Modulo") @@ (Sym("LeftAngle") :> "LessThan")
    @@ (Sym("RightAngle") :> "GreaterThan") @@ (Sym("And") :> "And")
    @@ (Sym("Or") :> "Or")

\* Parser::parse_binary_operator
parse_binary_operator(self) ==
    IF Dead(self)
    THEN Aborted(self)
    ELSE IF peek(self).symbol \in DOMAIN BinaryOperators
    THEN okay(self, BinaryOperators[peek(self).symbol])
    ELSE single_error(self, <<"Expected binary operator">>)

\* Parser::peek_precedence, for a parser that is not Dead: -1 stands for None.
peek_precedence(self) ==
    IF peek(self).symbol \in DOMAIN BinaryOperators \cup {Sym("Dot"), Sym("BracketOpen")}
    THEN precedence(peek(self).symbol)
    ELSE -1

RECURSIVE parse_expr(_, _)
RECURSIVE parse_expr_counted(_, _)
RECURSIVE parse_expr_left(_, _)
RECURSIVE parse_expr_loop(_, _)
RECURSIVE parse_expr_infix(_, _, _)
RECURSIVE parse_prefix(_)
RECURSIVE parse_prefix_negate(_)
RECURSIVE parse_prefix_paren(_)
RECURSIVE parse_prefix_identifier(_, _)
RECURSIVE parse_function_call(_, _)
RECURSIVE parse_function_call_close(_, _)
RECURSIVE parse_infix(_, _)
RECURSIVE parse_infix_binary(_, _, _)
RECURSIVE parse_infix_dot(_, _)
RECURSIVE parse_infix_member(_, _, _)
RECURSIVE parse_infix_method(_, _, _)
RECURSIVE parse_infix_method_close(_, _, _)
RECURSIVE parse_infix_index(_, _)
RECURSIVE parse_list_comma_separated(_, _)
RECURSIVE parse_list_comma_separated_loop(_, _, _, _)
RECURSIVE parse_list_comma_separated_item(_, _, _, _)
RECURSIVE parse_list_comma_separated_end(_, _, _, _)
RECURSIVE parse_item(_, _)

\* Parser::parse_expr: the recursion counter goes up first.
parse_expr(self, min_precedence) ==
    parse_expr_counted([self EXCEPT !.recursion_counter = @ + 1], min_precedence)

\* parse_expr after the count: the recursion limit, then the prefix.
parse_expr_counted(self, min_precedence) ==
    IF self.panic \/ self.recursion_counter > RecursionLimit
    THEN Aborted(self)
    ELSE parse_expr_left(parse_prefix(self), min_precedence)

\* parse_expr with the left operand parsed: it returns left when left failed.
parse_expr_left(left, min_precedence) ==
    IF left.output = None
    THEN left
    ELSE parse_expr_loop(left, min_precedence)

\* One iteration of the loop of parse_expr: the whitespace is skipped first.
parse_expr_loop(left, min_precedence) ==
    parse_expr_infix(left, skip_whitespace(left.p), min_precedence)

\* The rest of the iteration: the operator that follows left, if it binds
\* tightly enough, is parsed with its right operand.
parse_expr_infix(left, self, min_precedence) ==
    IF Dead(self)
    THEN Aborted(self)
    ELSE IF peek_precedence(self) = -1 \/ peek_precedence(self) < min_precedence
    THEN ParserOutput(self, left.output, left.diagnostics)
    ELSE parse_expr_left(parse_infix(self, left.output[1]), min_precedence)

\* Parser::parse_prefix
parse_prefix(self) ==
    IF Dead(self) THEN Aborted(self)
    ELSE IF peek(self).symbol = Sym("Dash")
    THEN parse_prefix_negate(parse_expr(skip_whitespace(consume(self)), 6))
    ELSE IF peek(self).symbol[1] = "Integer"
    THEN okay(consume(self), IntegerLiteral(peek(self).symbol[2]))
    ELSE IF peek(self).symbol[1] = "Float"
    THEN okay(consume(self), FloatLiteral(peek(self).symbol[2]))
    ELSE IF peek(self).symbol[1] = "StringLiteral"
    THEN okay(consume(self), StringLiteralExpr(peek(self).symbol[2]))
    ELSE IF peek(self).symbol = Sym("ParenOpen")
    THEN parse_prefix_paren(parse_expr(skip_whitespace(consume(self)), 0))
    ELSE IF peek(self).symbol[1] = "Identifier"
    THEN parse_prefix_identifier(skip_whitespace(consume(self)), peek(self).symbol[2])
    ELSE single_error(self, <<"Expected the beginning of an expression, but found {:?}",
                              peek(self).symbol>>)

\* The Dash arm of parse_prefix, operand being what parse_expr returned.
parse_prefix_negate(operand) ==
    IF operand.output = None
    THEN operand
    ELSE okay(operand.p, UnaryOp("Negate", operand.output[1]))

\* The ParenOpen arm of parse_prefix, inner being what parse_expr returned.
parse_prefix_paren(inner) ==
    and_then(inner, map(then_ignore(skip_whitespace(inner.p), Sym("ParenClose")),
                        inner.output[1]))

\* The Identifier arm of parse_prefix, after the name and the whitespace.
parse_prefix_identifier(self, name) ==
    IF Dead(self) THEN Aborted(self)
    ELSE IF peek(self).symbol = Sym("ParenOpen")
    THEN parse_function_call(self, name)
    ELSE okay(self, Variable(name))

\* Parser::parse_function_call
parse_function_call(self, name) ==
    parse_function_call_close(parse_list_comma_separated(consume(self), "expr"), name)

\* parse_function_call with the arguments parsed.
parse_function_call_close(args, name) ==
    and_then(args, map(then_ignore(args.p, Sym("ParenClose")),
                       FunctionCallExpr(name, args.output[1])))

\* Parser::parse_infix
parse_infix(self, left) ==
    IF Dead(self) THEN Aborted(self)
    ELSE IF peek(self).symbol \in DOMAIN BinaryOperators
    THEN parse_infix_binary(left, parse_binary_operator(self).output[1],
                            parse_expr(skip_whitespace(consume(self)),
                                       precedence(peek(self).symbol) + 1))
    ELSE IF peek(self).symbol = Sym("Dot")
    THEN parse_infix_dot(consume(self), left)
    ELSE IF peek(self).symbol = Sym("BracketOpen")
    THEN parse_infix_index(left, parse_expr(consume(self), 0))
    ELSE single_error(self, <<"Expected operator, dot, or index access">>)

\* The binary arm of parse_infix, right being what parse_expr returned.
parse_infix_binary(left, operator, right) ==
    IF right.output = None
    THEN transmute_error(right)
    ELSE okay(right.p, BinaryOp(left, operator, right.output[1]))

\* The Dot arm of parse_infix, after the dot.
parse_infix_dot(self, left) ==
    IF Dead(self) THEN Aborted(self)
    ELSE IF peek(self).symbol[1] = "Identifier"
    THEN parse_infix_member(consume(self), left, peek(self).symbol[2])
    ELSE single_error(self, <<"Expected property or method name after dot">>)

\* The Dot arm after the name: a method call or a property access.
parse_infix_member(self, left, name) ==
    IF Dead(self) THEN Aborted(self)
    ELSE IF peek(self).symbol = Sym("ParenOpen")
    THEN parse_infix_method(consume(self), left, name)
    ELSE okay(self, PropertyAccess(left, name))

\* The method call after its ParenOpen.
parse_infix_method(self, left, name) ==
    IF Dead(self) THEN Aborted(self)
    ELSE IF peek(self).symbol = Sym("ParenClose")
    THEN parse_infix_method_close(ParserOutput(self, Some(<< >>), << >>), left, name)
    ELSE parse_infix_method_close(parse_list_comma_separated(self, "expr"), left, name)

\* The method call with its arguments parsed: the result of the then_ignore
\* on ParenClose is dropped.
parse_infix_method_close(arguments, left, name) ==
    IF arguments.output = None
    THEN transmute_error(arguments)
    ELSE okay(then_ignore(arguments.p, Sym("ParenClose")).p,
              MethodCall(left, name, arguments.output[1]))

\* The BracketOpen arm of parse_infix, index being what parse_expr returned:
\* the result of the then_ignore on BracketClose is dropped.
parse_infix_index(left, index) ==
    IF index.output = None
    THEN ParserOutput(then_ignore(index.p, Sym("BracketClose")).p, None, index.diagnostics)
    ELSE okay(then_ignore(index.p, Sym("BracketClose")).p,
              IndexAccess(left, index.output[1]))

\* Parser::parse_list_comma_separated, parse_item being the parser named item.
parse_list_comma_separated(self, item) ==
    parse_list_comma_separated_loop(self, item, << >>, << >>)

\* One iteration of the loop of parse_list_comma_separated, from its items
\* and diagnostics so far.
parse_list_comma_separated_loop(self, item, items, diagnostics) ==
    parse_list_comma_separated_item(parse_item(self, item), item, items, diagnostics)

\* The iteration with its item parsed: a failed item ends the list, and the
\* comma after an item is optional.
parse_list_comma_separated_item(parsed_item, item, items, diagnostics) ==
    IF parsed_item.output = None
    THEN ParserOutput(parsed_item.p, Some(items), diagnostics \o parsed_item.diagnostics)
    ELSE parse_list_comma_separated_end(
             with_whitespace_after(
                 then_ignore(skip_whitespace(parsed_item.p), Sym("Comma"))).p,
             item, Append(items, parsed_item.output[1]),
             diagnostics \o parsed_item.diagnostics)

\* The end of the iteration: the symbols that close a list.
parse_list_comma_separated_end(self, item, items, diagnostics) ==
    IF Dead(self)
    THEN Aborted(self)
    ELSE IF peek(self).symbol \in {Sym("BraceClose"), Sym("BracketClose"), Sym("Tag"),
                                  Sym("Semicolon"), Sym("ParenClose")}
    THEN ParserOutput(self, Some(items), diagnostics)
    ELSE parse_list_comma_separated_loop(self, item, items, diagnostics)


\* ------------------------------------------------------------------ parser: types and data

\* The primitive types parse_type knows by name.
PrimitiveTypes ==
    (<<"A", "u", "t", "o">> :> Auto)
    @@ (<<"I", "n", "t">> :> Integer)
    @@ (<<"F", "l", "o", "a", "t">> :> Float)
    @@ (<<"S", "t", "r", "i", "n", "g">> :> String)
    @@ (<<"B", "o", "o", "l">> :> Boolean)
    @@ (<<"S", "i", "z", "e">> :> Size)
    @@ (<<"B", "y", "t", "e">> :> Byte)
    @@ (<<"V", "o", "i", "d">> :> Void)
    @@ (<<"R", "a", "w", "C", "T", "y", "p", "e">> :> CType)

\* The boxed types parse_type knows by name.
BoxedTypes ==
    (<<"A", "r", "r", "a", "y">> :> "Array")
    @@ (<<"M", "a", "p">> :> "Map")
    @@ (<<"S", "h", "a", "r", "e", "d">> :> "Shared")

RECURSIVE parse_type(_)
RECURSIVE parse_type_generic(_)
RECURSIVE parse_type_named(_)
RECURSIVE parse_type_boxed(_, _)
RECURSIVE parse_import_file(_)
RECURSIVE parse_import_with(_)
RECURSIVE parse_import_items(_, _)
RECURSIVE parse_import_semicolon(_, _)
RECURSIVE parse_data_properties_named(_)
RECURSIVE parse_data_traits_named(_)
RECURSIVE parse_fn_properties_named(_)
RECURSIVE parse_fn_permissions_named(_)
RECURSIVE parse_metadata_list_colon(_, _)
RECURSIVE parse_metadata_list_values(_, _)
RECURSIVE parse_metadata_list_semicolon(_)
RECURSIVE parse_metadata_data_types_loop(_, _, _, _)
RECURSIVE parse_metadata_data_types_at(_, _, _, _)
RECURSIVE parse_metadata_data_types_properties(_, _, _, _)
RECURSIVE parse_metadata_data_types_traits(_, _, _, _)
RECURSIVE parse_metadata_data_types_keyword(_)
RECURSIVE parse_metadata_data_types_brace(_)
RECURSIVE parse_metadata_data_types_body(_)
RECURSIVE parse_metadata_data_types_closing(_)
RECURSIVE parse_data_declaration_name(_)
RECURSIVE parse_data_declaration_brace(_)
RECURSIVE parse_field_colon(_)
RECURSIVE parse_field_type(_, _)
RECURSIVE parse_field_of(_, _)
RECURSIVE parse_field_optional_type_after(_)
RECURSIVE parse_field_optional_type_match(_, _)
RECURSIVE parse_data_fields(_, _, _)
RECURSIVE parse_data_metadata(_, _, _)
RECURSIVE parse_data_closing(_, _, _, _)

\* Parser::parse_type
parse_type(self) ==
    IF Dead(self) THEN Aborted(self)
    ELSE IF peek(self).symbol = Sym("Generic")
    THEN parse_type_generic(then_identifier(then_ignore(consume(self), Sym("LeftAngle")).p))
    ELSE parse_type_named(then_identifier(self))

\* The Generic arm of parse_type with the name read: the results of the two
\* then_ignore on the angles are dropped.
parse_type_generic(generic) ==
    IF generic.output = None
    THEN ParserOutput(then_ignore(generic.p, Sym("RightAngle")).p, None, generic.diagnostics)
    ELSE okay(then_ignore(generic.p, Sym("RightAngle")).p, Generic(generic.output[1]))

\* The other arm of parse_type with the name read.
parse_type_named(named) ==
    IF named.output = None THEN named
    ELSE IF named.output[1] \in DOMAIN PrimitiveTypes
    THEN okay(named.p, PrimitiveTypes[named.output[1]])
    ELSE IF named.output[1] \in DOMAIN BoxedTypes
    THEN parse_type_boxed(named.output[1],
                          parse_type(then_ignore(named.p, Sym("LeftAngle")).p))
    ELSE okay(named.p, Custom(named.output[1]))

\* Array, Map and Shared with their inner type parsed.
parse_type_boxed(name, inner_type) ==
    IF inner_type.output = None
    THEN inner_type
    ELSE okay(then_ignore(inner_type.p, Sym("RightAngle")).p,
              <<BoxedTypes[name]>> \o inner_type.output[1])

\* Parser::parse_import
parse_import(self) ==
    IF Dead(self) THEN Aborted(self)
    ELSE parse_import_file(then_ignore(self, Sym("Import")))

\* parse_import after the keyword: the file.
parse_import_file(keyword) ==
    and_then(keyword,
             parse_import_with(
                 with_whitespace_after(then_identifier(skip_whitespace(keyword.p)))))

\* parse_import after the file: the With.
parse_import_with(file) ==
    and_then(file,
             parse_import_items(
                 file,
                 with_whitespace_after(then_ignore(skip_whitespace(file.p), Sym("With")))))

\* parse_import after the With: the items.
parse_import_items(file, with_) ==
    and_then(with_,
             parse_import_semicolon(file, parse_list_comma_separated(with_.p, "identifier")))

\* parse_import after the items: the semicolon.
parse_import_semicolon(file, items) ==
    and_then(items, map(then_ignore(items.p, Sym("Semicolon")),
                        Import(file.output[1], items.output[1])))

\* Parser::parse_data_properties
parse_data_properties(self) ==
    IF Dead(self) THEN Aborted(self)
    ELSE parse_data_properties_named(then_identifier(self))

\* parse_data_properties with the name read.
parse_data_properties_named(named) ==
    and_then(named,
             IF named.output[1] \in {<<"P", "u", "b", "l", "i", "c">>,
                                     <<"E", "x", "p", "o", "r", "t">>}
             THEN okay(named.p, named.output[1])
             ELSE single_error(named.p, <<"expected 'Public' or 'Export', but received {}",
                                          named.output[1]>>))

\* Parser::parse_data_traits
parse_data_traits(self) ==
    IF Dead(self) THEN Aborted(self)
    ELSE parse_data_traits_named(then_identifier(self))

\* parse_data_traits with the name read.
parse_data_traits_named(named) ==
    and_then(named,
             IF named.output[1] \in {<<"E", "q">>, <<"S", "h", "o", "w">>}
             THEN okay(named.p, named.output[1])
             ELSE single_error(named.p, <<"expected 'Eq' or 'Show', but received {}",
                                          named.output[1]>>))

\* Parser::parse_fn_properties
parse_fn_properties(self) ==
    IF Dead(self) THEN Aborted(self)
    ELSE parse_fn_properties_named(then_identifier(self))

\* parse_fn_properties with the name read.
parse_fn_properties_named(named) ==
    and_then(named,
             IF named.output[1] \in {<<"P", "u", "b", "l", "i", "c">>,
                                     <<"E", "x", "p", "o", "r", "t">>}
             THEN okay(named.p, named.output[1])
             ELSE single_error(named.p, <<"expected 'Public' or 'Export', but received {}",
                                          named.output[1]>>))

\* Parser::parse_fn_permissions: any name is a permission.
parse_fn_permissions(self) ==
    IF Dead(self) THEN Aborted(self)
    ELSE parse_fn_permissions_named(then_identifier(self))

\* parse_fn_permissions with the name read.
parse_fn_permissions_named(named) ==
    and_then(named, okay(named.p, named.output[1]))

\* Parser::parse_metadata_list, parse_item being the parser named item.
parse_metadata_list(self, expected_symbol, item) ==
    IF Dead(self) THEN Aborted(self)
    ELSE parse_metadata_list_colon(then_ignore(self, expected_symbol), item)

\* parse_metadata_list after its keyword: the colon.
parse_metadata_list_colon(expected, item) ==
    and_then(expected,
             parse_metadata_list_values(
                 with_whitespace_after(
                     then_ignore(skip_whitespace(expected.p), Sym("Colon"))),
                 item))

\* parse_metadata_list after the colon: the values.
parse_metadata_list_values(colon, item) ==
    and_then(colon,
             parse_metadata_list_semicolon(parse_list_comma_separated(colon.p, item)))

\* parse_metadata_list after the values: the semicolon.
parse_metadata_list_semicolon(values) ==
    and_then(values, map(then_ignore(values.p, Sym("Semicolon")), values.output[1]))

\* Option::unwrap_or_default of the output of a list parser.
unwrap_or_default(out) == IF out.output = None THEN << >> ELSE out.output[1]

\* One iteration of the loop of parse_metadata_data_types, from what it has
\* collected so far: the whitespace is skipped first.
parse_metadata_data_types_loop(self, properties, traits, diagnostics) ==
    parse_metadata_data_types_at(skip_whitespace(self), properties, traits, diagnostics)

\* The match of the iteration.
parse_metadata_data_types_at(self, properties, traits, diagnostics) ==
    IF Dead(self) THEN Aborted(self)
    ELSE IF peek(self).symbol = Sym("Properties")
    THEN parse_metadata_data_types_properties(
             parse_metadata_list(self, Sym("Properties"), "data_properties"),
             properties, traits, diagnostics)
    ELSE IF peek(self).symbol = Sym("Traits")
    THEN parse_metadata_data_types_traits(
             parse_metadata_list(self, Sym("Traits"), "data_traits"),
             properties, traits, diagnostics)
    ELSE IF peek(self).symbol = Sym("BraceClose")
    THEN ParserOutput(self, Some([properties |-> properties, traits |-> traits]),
                      diagnostics)
    ELSE parse_metadata_data_types_loop(
             consume(self), properties, traits,
             Append(diagnostics,
                    Diagnostic_new_error_simple(
                        <<"Unexpected token when parsing function metadata (props and traits/derives)">>,
                        peek(self).pos)))

\* The Properties arm with its list parsed.
parse_metadata_data_types_properties(props, properties, traits, diagnostics) ==
    parse_metadata_data_types_loop(props.p, properties \o unwrap_or_default(props),
                                   traits, diagnostics \o props.diagnostics)

\* The Traits arm with its list parsed.
parse_metadata_data_types_traits(derives, properties, traits, diagnostics) ==
    parse_metadata_data_types_loop(derives.p, properties,
                                   traits \o unwrap_or_default(derives),
                                   diagnostics \o derives.diagnostics)

\* Parser::parse_metadata_data_types
parse_metadata_data_types(self) ==
    IF Dead(self) THEN Aborted(self)
    ELSE parse_metadata_data_types_keyword(then_ignore(self, Sym("Tag")))

\* parse_metadata_data_types after the Tag: the Metadata keyword.
parse_metadata_data_types_keyword(tag) ==
    and_then(tag, parse_metadata_data_types_brace(then_ignore(tag.p, Sym("Metadata"))))

\* parse_metadata_data_types after the keyword: the opening brace.
parse_metadata_data_types_brace(metadata) ==
    and_then(metadata,
             parse_metadata_data_types_body(
                 with_whitespace_after(
                     then_ignore(skip_whitespace(metadata.p), Sym("BraceOpen")))))

\* parse_metadata_data_types after the brace: the loop.
parse_metadata_data_types_body(brace) ==
    and_then(brace,
             parse_metadata_data_types_closing(
                 parse_metadata_data_types_loop(brace.p, << >>, << >>, << >>)))

\* parse_metadata_data_types after the loop: the closing brace.
parse_metadata_data_types_closing(body) ==
    and_then(body, map(then_ignore(body.p, Sym("BraceClose")), body.output[1]))

\* Parser::parse_struct_declaration and Parser::parse_enum_declaration, keyword
\* being Struct or Enum.
parse_data_declaration(self, keyword) ==
    IF Dead(self) THEN Aborted(self)
    ELSE parse_data_declaration_name(then_ignore(self, Sym(keyword)))

\* The declaration after its keyword: the name.
parse_data_declaration_name(key) ==
    and_then(key,
             parse_data_declaration_brace(
                 with_whitespace_after(then_identifier(skip_whitespace(key.p)))))

\* The declaration after its name: the opening brace.
parse_data_declaration_brace(name) ==
    and_then(name,
             map(with_whitespace_after(
                     then_ignore(skip_whitespace(name.p), Sym("BraceOpen"))),
                 name.output[1]))

\* Parser::parse_field_mandatory_type
parse_field_mandatory_type(self) ==
    IF Dead(self) THEN Aborted(self)
    ELSE parse_field_colon(then_identifier(self))

\* A field after its name: the colon.
parse_field_colon(name) ==
    and_then(name,
             parse_field_type(
                 name,
                 with_whitespace_after(then_ignore(skip_whitespace(name.p), Sym("Colon")))))

\* A field after its colon: the type.
parse_field_type(name, colon) ==
    and_then(colon,
             parse_field_of(name, with_whitespace_after(parse_type(skip_whitespace(colon.p)))))

\* A field with its type parsed.
parse_field_of(name, type_) == map(type_, Field(name.output[1], type_.output[1]))

\* Parser::parse_field_optional_type
parse_field_optional_type(self) ==
    IF Dead(self) THEN Aborted(self)
    ELSE parse_field_optional_type_after(then_identifier(self))

\* A variant after its name: the with_whitespace around the match.
parse_field_optional_type_after(name) ==
    and_then(name,
             with_whitespace_after(
                 parse_field_optional_type_match(name, skip_whitespace(name.p))))

\* The match of parse_field_optional_type on the symbol after the name.
parse_field_optional_type_match(name, self) ==
    IF Dead(self) THEN Aborted(self)
    ELSE IF peek(self).symbol = Sym("Colon")
    THEN parse_field_type(name, then_ignore(self, Sym("Colon")))
    ELSE IF peek(self).symbol = Sym("Comma")
    THEN okay(self, Field(name.output[1], Void))
    ELSE single_error(self, <<"expected ':' or ',' after enum field name, but found {:?}",
                              peek(self).symbol>>)

\* The Struct and the Enum of the parser: the declaration with its traits.
DataOf(kind, name, fields, metadata) ==
    [kind |-> kind, name |-> name, fields |-> fields,
     properties |-> metadata.properties, traits |-> metadata.traits]

\* Parser::parse_struct and Parser::parse_enum, keyword being Struct or Enum
\* and item the parser of their fields.
parse_data(self, keyword, item) ==
    IF Dead(self) THEN Aborted(self)
    ELSE parse_data_fields(parse_data_declaration(self, keyword), keyword, item)

\* parse_struct and parse_enum after the declaration: the fields.
parse_data_fields(name, keyword, item) ==
    IF name.output = None
    THEN transmute_error(name)
    ELSE and_then(name,
                  parse_data_metadata(name, keyword,
                                      parse_list_comma_separated(name.p, item)))

\* parse_struct and parse_enum after the fields: the metadata block.
parse_data_metadata(name, keyword, fields) ==
    and_then(fields,
             parse_data_closing(name, keyword, fields, parse_metadata_data_types(fields.p)))

\* parse_struct and parse_enum after the metadata block: the closing brace.
parse_data_closing(name, keyword, fields, metadata) ==
    and_then(metadata,
             map(with_whitespace_after(
                     then_ignore(skip_whitespace(metadata.p), Sym("BraceClose"))),
                 DataOf(IF keyword = "Struct" THEN "StructDeclaration" ELSE "EnumDeclaration",
                        name.output[1], fields.output[1], metadata.output[1])))

\* Parser::parse_struct
parse_struct(self) == parse_data(self, "Struct", "field_mandatory_type")

\* Parser::parse_enum
parse_enum(self) == parse_data(self, "Enum", "field_optional_type")


\* ------------------------------------------------------------------ parser: functions

\* parser.rs FunctionContract, Branch and Statement
FunctionContract(type_, condition, message) ==
    [type_ |-> type_, condition |-> condition, message |-> message]
BranchOf(condition, computations) ==
    [condition |-> condition, computations |-> computations]
StatementFunctionCall(expr) == [kind |-> "FunctionCall", expr |-> expr]
StatementVariableDeclaration(name, type_, value) ==
    [kind |-> "VariableDeclaration", name |-> name, type_ |-> type_, value |-> value]
VariableMutation(name, value) ==
    [kind |-> "VariableMutation", name |-> name, value |-> value]
StatementConditional(branches) == [kind |-> "Conditional", branches |-> branches]
StatementReturn(expr) == [kind |-> "Return", expr |-> expr]

\* parser.rs Function, from the FunctionDeclaration of its first line.
FunctionOf(declaration, properties, permissions, contracts, statements) ==
    [kind |-> "FunctionDeclaration", name |-> declaration.name,
     args |-> declaration.parameters, returns |-> declaration.return_type,
     properties |-> properties, permissions |-> permissions,
     contracts |-> contracts, statements |-> statements]

\* The cap on iter_count in parse_block.
BlockIterationLimit == 1000
\* The iter_count after which parse_statements_many stops on a diagnostic.
StatementErrorLimit == 5

RECURSIVE parse_function_declaration_name(_)
RECURSIVE parse_function_declaration_open(_)
RECURSIVE parse_function_declaration_parameters(_, _)
RECURSIVE parse_function_declaration_close(_, _)
RECURSIVE parse_function_declaration_dash(_, _, _)
RECURSIVE parse_function_declaration_angle(_, _, _)
RECURSIVE parse_function_declaration_return_type(_, _, _)
RECURSIVE parse_function_declaration_brace(_, _, _)
RECURSIVE parse_function_metadata_loop(_, _, _, _)
RECURSIVE parse_function_metadata_at(_, _, _, _)
RECURSIVE parse_function_metadata_properties(_, _, _, _)
RECURSIVE parse_function_metadata_permissions(_, _, _, _)
RECURSIVE parse_function_metadata_keyword(_)
RECURSIVE parse_function_metadata_brace(_)
RECURSIVE parse_function_metadata_body(_)
RECURSIVE parse_function_metadata_closing(_)
RECURSIVE parse_function_contracts_loop(_, _, _)
RECURSIVE parse_function_contracts_at(_, _, _)
RECURSIVE parse_function_contracts_recover(_, _, _)
RECURSIVE parse_function_contracts_paren(_)
RECURSIVE parse_function_contracts_open(_, _, _, _)
RECURSIVE parse_function_contracts_condition(_, _, _, _)
RECURSIVE parse_function_contracts_comma(_, _, _, _, _)
RECURSIVE parse_function_contracts_message(_, _, _, _, _)
RECURSIVE parse_function_contracts_close(_, _, _, _, _, _)
RECURSIVE parse_function_contracts_keyword(_)
RECURSIVE parse_function_contracts_brace(_)
RECURSIVE parse_function_contracts_body(_)
RECURSIVE parse_function_contracts_closing(_)
RECURSIVE parse_variable_declaration_name(_)
RECURSIVE parse_variable_declaration_colon(_, _)
RECURSIVE parse_variable_declaration_equals(_, _)
RECURSIVE parse_variable_declaration_value(_, _, _)
RECURSIVE parse_variable_declaration_semicolon(_, _, _)
RECURSIVE parse_return_semicolon(_)
RECURSIVE parse_call_or_assignment_after(_)
RECURSIVE parse_call_or_assignment_at(_, _)
RECURSIVE parse_call_or_assignment_value(_, _)
RECURSIVE parse_call_or_assignment_semicolon(_, _, _)
RECURSIVE parse_statement(_)
RECURSIVE parse_statement_at(_)
RECURSIVE parse_block(_)
RECURSIVE parse_block_brace(_)
RECURSIVE parse_block_loop(_, _, _, _)
RECURSIVE parse_block_at(_, _, _, _)
RECURSIVE parse_block_statement(_, _, _, _)
RECURSIVE parse_statements_many_loop(_, _, _, _)
RECURSIVE parse_statements_many_at(_, _, _, _)
RECURSIVE parse_statements_many_statement(_, _, _, _)
RECURSIVE parse_conditional(_)
RECURSIVE parse_conditional_block(_)
RECURSIVE parse_conditional_first(_, _)
RECURSIVE parse_conditional_elif(_, _, _)
RECURSIVE parse_conditional_elif_at(_, _, _)
RECURSIVE parse_conditional_elif_condition(_, _, _)
RECURSIVE parse_conditional_elif_block(_, _, _, _)
RECURSIVE parse_conditional_else(_, _, _)
RECURSIVE parse_conditional_else_at(_, _, _)
RECURSIVE parse_conditional_else_block(_, _, _)
RECURSIVE parse_conditional_result(_, _, _)
RECURSIVE parse_match(_)
RECURSIVE parse_match_brace(_)
RECURSIVE parse_match_opened(_)
RECURSIVE parse_match_loop(_, _, _)
RECURSIVE parse_match_at(_, _, _)
RECURSIVE parse_match_finish(_, _, _)
RECURSIVE parse_match_pattern(_)
RECURSIVE parse_match_arrow(_, _, _)
RECURSIVE parse_match_body(_, _, _, _)
RECURSIVE parse_match_body_at(_, _, _, _)
RECURSIVE parse_match_block(_, _, _, _)
RECURSIVE parse_match_after_block(_)
RECURSIVE parse_match_expr(_, _, _, _)
RECURSIVE parse_match_separator(_, _, _, _, _)
RECURSIVE parse_function_metadata_of(_)
RECURSIVE parse_function_contracts_of(_, _)
RECURSIVE parse_function_statements_of(_, _, _)
RECURSIVE parse_function_result(_, _, _, _)

\* Parser::parse_function_declaration
parse_function_declaration(self) ==
    IF Dead(self) THEN Aborted(self)
    ELSE parse_function_declaration_name(then_ignore(self, Sym("Function")))

\* The declaration after its keyword: the name.
parse_function_declaration_name(keyword) ==
    and_then(keyword,
             parse_function_declaration_open(
                 with_whitespace_after(then_identifier(skip_whitespace(keyword.p)))))

\* The declaration after its name: the opening parenthesis.
parse_function_declaration_open(name) ==
    and_then(name,
             parse_function_declaration_parameters(
                 name, then_ignore(name.p, Sym("ParenOpen"))))

\* The declaration after the parenthesis: the parameters.
parse_function_declaration_parameters(name, open) ==
    and_then(open,
             parse_function_declaration_close(
                 name, parse_list_comma_separated(open.p, "parameter")))

\* The declaration after the parameters: the closing parenthesis.
parse_function_declaration_close(name, parameters) ==
    and_then(parameters,
             parse_function_declaration_dash(
                 name, parameters, then_ignore(parameters.p, Sym("ParenClose"))))

\* The declaration after the parenthesis: the dash of the arrow.
parse_function_declaration_dash(name, parameters, close) ==
    and_then(close,
             parse_function_declaration_angle(
                 name, parameters,
                 with_whitespace_after(then_ignore(skip_whitespace(close.p), Sym("Dash")))))

\* The declaration after the dash: the angle of the arrow.
parse_function_declaration_angle(name, parameters, dash) ==
    and_then(dash,
             parse_function_declaration_return_type(
                 name, parameters, then_ignore(dash.p, Sym("RightAngle"))))

\* The declaration after the arrow: the return type.
parse_function_declaration_return_type(name, parameters, angle) ==
    and_then(angle,
             parse_function_declaration_brace(
                 name, parameters,
                 with_whitespace_after(parse_type(skip_whitespace(angle.p)))))

\* The declaration after the return type: the opening brace.
parse_function_declaration_brace(name, parameters, return_type) ==
    and_then(return_type,
             map(with_whitespace_after(
                     then_ignore(skip_whitespace(return_type.p), Sym("BraceOpen"))),
                 [name |-> name.output[1],
                  parameters |-> parameters.output[1],
                  return_type |-> return_type.output[1]]))

\* One iteration of the loop of parse_function_metadata, from what it has
\* collected so far: the whitespace is skipped first.
parse_function_metadata_loop(self, properties, traits, diagnostics) ==
    parse_function_metadata_at(skip_whitespace(self), properties, traits, diagnostics)

\* The match of the iteration.
parse_function_metadata_at(self, properties, traits, diagnostics) ==
    IF Dead(self) THEN Aborted(self)
    ELSE IF peek(self).symbol = Sym("Properties")
    THEN parse_function_metadata_properties(
             parse_metadata_list(self, Sym("Properties"), "fn_properties"),
             properties, traits, diagnostics)
    ELSE IF peek(self).symbol = Sym("Permissions")
    THEN parse_function_metadata_permissions(
             parse_metadata_list(self, Sym("Permissions"), "fn_permissions"),
             properties, traits, diagnostics)
    ELSE IF peek(self).symbol = Sym("BraceClose")
    THEN ParserOutput(self, Some([properties |-> properties, permissions |-> traits]),
                      diagnostics)
    ELSE parse_function_metadata_loop(
             consume(self), properties, traits,
             Append(diagnostics,
                    Diagnostic_new_error_simple(
                        <<"encountered an unexpected symbol parsing function metadata: found {:?}",
                          peek(self).symbol>>,
                        peek(self).pos)))

\* The Properties arm with its list parsed.
parse_function_metadata_properties(props, properties, traits, diagnostics) ==
    parse_function_metadata_loop(props.p, properties \o unwrap_or_default(props),
                                 traits, diagnostics \o props.diagnostics)

\* The Permissions arm with its list parsed.
parse_function_metadata_permissions(uses, properties, traits, diagnostics) ==
    parse_function_metadata_loop(uses.p, properties, traits \o unwrap_or_default(uses),
                                 diagnostics \o uses.diagnostics)

\* Parser::parse_function_metadata: without a Tag there is no block.
parse_function_metadata(self) ==
    IF Dead(self) THEN Aborted(self)
    ELSE IF peek(self).symbol # Sym("Tag")
    THEN okay(self, [properties |-> << >>, permissions |-> << >>])
    ELSE parse_function_metadata_keyword(then_ignore(self, Sym("Tag")))

\* parse_function_metadata after the Tag: the Metadata keyword.
parse_function_metadata_keyword(tag) ==
    and_then(tag, parse_function_metadata_brace(then_ignore(tag.p, Sym("Metadata"))))

\* parse_function_metadata after the keyword: the opening brace.
parse_function_metadata_brace(metadata) ==
    and_then(metadata,
             parse_function_metadata_body(
                 with_whitespace_after(
                     then_ignore(skip_whitespace(metadata.p), Sym("BraceOpen")))))

\* parse_function_metadata after the brace: the loop.
parse_function_metadata_body(brace) ==
    and_then(brace,
             parse_function_metadata_closing(
                 parse_function_metadata_loop(brace.p, << >>, << >>, << >>)))

\* parse_function_metadata after the loop: the closing brace.
parse_function_metadata_closing(body) ==
    and_then(body, map(then_ignore(body.p, Sym("BraceClose")), body.output[1]))

\* One iteration of the loop of parse_function_contracts, from its contracts
\* and diagnostics so far: the whitespace is skipped first.
parse_function_contracts_loop(self, contracts, diagnostics) ==
    parse_function_contracts_at(skip_whitespace(self), contracts, diagnostics)

\* The match of the iteration.
parse_function_contracts_at(self, contracts, diagnostics) ==
    IF Dead(self) THEN Aborted(self)
    ELSE IF peek(self).symbol \in {Sym("In"), Sym("Out")}
    THEN parse_function_contracts_open(
             IF peek(self).symbol = Sym("In") THEN "Input" ELSE "Output",
             parse_function_contracts_paren(then_ignore(consume(self), Sym("Colon"))),
             contracts, diagnostics)
    ELSE IF peek(self).symbol = Sym("BraceClose")
    THEN ParserOutput(self, IF Len(contracts) > 0 THEN Some(contracts) ELSE None,
                      diagnostics)
    ELSE parse_function_contracts_loop(
             consume(self), contracts,
             Append(diagnostics,
                    Diagnostic_new_error_simple(
                        <<"Unexpected symbol in contract declaration: {:?}",
                          peek(self).symbol>>,
                        peek(self).pos)))

\* A step of a contract failed with out: its diagnostics are kept and the loop
\* goes on after the next NewLine.
parse_function_contracts_recover(out, contracts, diagnostics) ==
    parse_function_contracts_loop(skip_to_next_newline(out.p), contracts,
                                  diagnostics \o out.diagnostics)

\* A contract after its colon: the opening parenthesis.
parse_function_contracts_paren(colon) ==
    and_then(colon,
             with_whitespace_after(then_ignore(skip_whitespace(colon.p), Sym("ParenOpen"))))

\* A contract after its parenthesis: the condition.
parse_function_contracts_open(contract_type, result, contracts, diagnostics) ==
    IF result.output = None
    THEN parse_function_contracts_recover(result, contracts, diagnostics)
    ELSE parse_function_contracts_condition(
             contract_type, parse_expr(skip_whitespace(result.p), 0), contracts, diagnostics)

\* A contract after its condition: the comma.
parse_function_contracts_condition(contract_type, condition, contracts, diagnostics) ==
    IF condition.output = None
    THEN parse_function_contracts_recover(condition, contracts, diagnostics)
    ELSE parse_function_contracts_comma(
             contract_type, condition,
             with_whitespace_after(
                 then_ignore(skip_whitespace(condition.p), Sym("Comma"))),
             contracts, diagnostics)

\* A contract after its comma: the whitespace before the message.
parse_function_contracts_comma(contract_type, condition, comma_result, contracts,
                               diagnostics) ==
    IF comma_result.output = None
    THEN parse_function_contracts_recover(comma_result, contracts, diagnostics)
    ELSE parse_function_contracts_message(
             contract_type, condition, skip_whitespace(comma_result.p), contracts,
             diagnostics)

\* A contract at its message: the string and the closing parenthesis.
parse_function_contracts_message(contract_type, condition, self, contracts, diagnostics) ==
    IF Dead(self) THEN Aborted(self)
    ELSE IF peek(self).symbol[1] # "StringLiteral"
    THEN parse_function_contracts_recover(
             err(self, <<Diagnostic_new_error_simple(
                             <<"Expected a string in a contract for the contract error message">>,
                             peek(self).pos)>>),
             contracts, diagnostics)
    ELSE parse_function_contracts_close(
             contract_type, condition, peek(self).symbol[2],
             with_whitespace_after(
                 then_ignore(skip_whitespace(consume(self)), Sym("ParenClose"))),
             contracts, diagnostics)

\* A contract after its closing parenthesis: it joins the contracts.
parse_function_contracts_close(contract_type, condition, message, close_result, contracts,
                               diagnostics) ==
    IF close_result.output = None
    THEN parse_function_contracts_recover(close_result, contracts, diagnostics)
    ELSE parse_function_contracts_loop(
             close_result.p,
             Append(contracts,
                    FunctionContract(contract_type, condition.output[1], message)),
             diagnostics)

\* Parser::parse_function_contracts: without a Tag there is no block.
parse_function_contracts(self) ==
    IF Dead(self) THEN Aborted(self)
    ELSE IF peek(self).symbol # Sym("Tag")
    THEN okay(self, << >>)
    ELSE parse_function_contracts_keyword(then_ignore(self, Sym("Tag")))

\* parse_function_contracts after the Tag: the Contracts keyword.
parse_function_contracts_keyword(tag) ==
    and_then(tag, parse_function_contracts_brace(then_ignore(tag.p, Sym("Contracts"))))

\* parse_function_contracts after the keyword: the opening brace.
parse_function_contracts_brace(keyword) ==
    and_then(keyword,
             parse_function_contracts_body(
                 with_whitespace_after(
                     then_ignore(skip_whitespace(keyword.p), Sym("BraceOpen")))))

\* parse_function_contracts after the brace: the loop.
parse_function_contracts_body(brace) ==
    and_then(brace,
             parse_function_contracts_closing(
                 parse_function_contracts_loop(brace.p, << >>, << >>)))

\* parse_function_contracts after the loop: the closing brace.
parse_function_contracts_closing(body) ==
    and_then(body, map(then_ignore(body.p, Sym("BraceClose")), body.output[1]))

\* Parser::parse_variable_declaration: the keyword is consumed first.
parse_variable_declaration(self) ==
    parse_variable_declaration_name(skip_whitespace(consume(self)))

\* The declaration at its name.
parse_variable_declaration_name(self) ==
    IF Dead(self) THEN Aborted(self)
    ELSE IF peek(self).symbol[1] # "Identifier"
    THEN single_error(self, <<"expected a variable name after the keyword 'let'">>)
    ELSE parse_variable_declaration_colon(
             peek(self).symbol[2],
             then_ignore(skip_whitespace(consume(self)), Sym("Colon")))

\* The declaration after its colon: the type.
parse_variable_declaration_colon(name, colon) ==
    and_then(colon,
             parse_variable_declaration_equals(name, parse_type(skip_whitespace(colon.p))))

\* The declaration after its type: the equals sign.
parse_variable_declaration_equals(name, type_) ==
    and_then(type_,
             parse_variable_declaration_value(
                 name, type_, then_ignore(skip_whitespace(type_.p), Sym("Equals"))))

\* The declaration after the equals sign: the value.
parse_variable_declaration_value(name, type_, equals) ==
    and_then(equals,
             parse_variable_declaration_semicolon(
                 name, type_, parse_expr(skip_whitespace(equals.p), 0)))

\* The declaration after its value: the semicolon.
parse_variable_declaration_semicolon(name, type_, value) ==
    and_then(value,
             map(then_ignore(value.p, Sym("Semicolon")),
                 StatementVariableDeclaration(name, type_.output[1], value.output[1])))

\* Parser::parse_return
parse_return(self) ==
    IF Dead(self) THEN Aborted(self)
    ELSE parse_return_semicolon(parse_expr(skip_whitespace(consume(self)), 0))

\* parse_return after its expression: the semicolon.
parse_return_semicolon(expr) ==
    IF expr.output = None
    THEN transmute_error(expr)
    ELSE map(then_ignore(expr.p, Sym("Semicolon")), StatementReturn(expr.output[1]))

\* The Identifier arm of parse_statement: a function call or an assignment.
parse_call_or_assignment(self) ==
    parse_call_or_assignment_after(parse_expr(self, 0))

\* The arm after its expression.
parse_call_or_assignment_after(expr) ==
    IF expr.output = None
    THEN transmute_error(expr)
    ELSE parse_call_or_assignment_at(expr, skip_whitespace(expr.p))

\* The arm at the symbol that follows the expression.
parse_call_or_assignment_at(expr, self) ==
    IF Dead(self) THEN Aborted(self)
    ELSE IF peek(self).symbol = Sym("Equals")
    THEN parse_call_or_assignment_value(
             expr, parse_expr(skip_whitespace(consume(self)), 0))
    ELSE IF peek(self).symbol = Sym("Semicolon")
    THEN okay(consume(self), StatementFunctionCall(expr.output[1]))
    ELSE single_error(self, <<"issue parsing a statement, expected '=' or ';' after an expression">>)

\* An assignment after its value: the semicolon.
parse_call_or_assignment_value(expr, value) ==
    IF value.output = None
    THEN transmute_error(value)
    ELSE parse_call_or_assignment_semicolon(
             expr, value, then_ignore(value.p, Sym("Semicolon")))

\* An assignment after its semicolon: a target that is not a variable panics.
parse_call_or_assignment_semicolon(expr, value, semicolon) ==
    IF semicolon.output = None THEN semicolon
    ELSE IF expr.output[1].kind # "Variable"
    THEN Aborted(semicolon.p)
    ELSE okay(semicolon.p, VariableMutation(expr.output[1].name, value.output[1]))

\* Parser::parse_statement: the whitespace is skipped first.
parse_statement(self) == parse_statement_at(skip_whitespace(self))

\* The match of parse_statement.
parse_statement_at(self) ==
    IF Dead(self) THEN Aborted(self)
    ELSE IF peek(self).symbol = Sym("Let") THEN parse_variable_declaration(self)
    ELSE IF peek(self).symbol = Sym("If") THEN parse_conditional(self)
    ELSE IF peek(self).symbol = Sym("Match") THEN parse_match(self)
    ELSE IF peek(self).symbol = Sym("Return") THEN parse_return(self)
    ELSE IF peek(self).symbol[1] = "Identifier" THEN parse_call_or_assignment(self)
    ELSE single_error(self, <<"expected a statement keyword ('let', 'if', 'match', 'return', etc.)">>)

\* Parser::parse_block
parse_block(self) ==
    IF Dead(self) THEN Aborted(self)
    ELSE parse_block_brace(then_ignore(skip_whitespace(self), Sym("BraceOpen")))

\* parse_block after its opening brace.
parse_block_brace(brace) ==
    and_then(brace, parse_block_loop(brace.p, << >>, << >>, 0))

\* One iteration of the loop of parse_block, from its statements, diagnostics
\* and iter_count so far: the whitespace is skipped first.
parse_block_loop(self, statements, diagnostics, iter_count) ==
    parse_block_at(skip_whitespace(self), statements, diagnostics, iter_count)

\* The iteration at its first symbol: the closing brace, or a statement.
parse_block_at(self, statements, diagnostics, iter_count) ==
    IF Dead(self) THEN Aborted(self)
    ELSE IF peek(self).symbol = Sym("BraceClose")
    THEN ParserOutput(consume(self), Some(statements), diagnostics)
    ELSE parse_block_statement(parse_statement(self), statements, diagnostics, iter_count)

\* The iteration with its statement parsed.
parse_block_statement(stmt, statements, diagnostics, iter_count) ==
    IF stmt.p.panic THEN Aborted(stmt.p)
    ELSE IF iter_count + 1 > BlockIterationLimit
    THEN ParserOutput(stmt.p, Some(statements \o stmt.output),
                      diagnostics \o stmt.diagnostics)
    ELSE parse_block_loop(stmt.p, statements \o stmt.output,
                          diagnostics \o stmt.diagnostics, iter_count + 1)

\* One iteration of the loop of parse_statements_many: the whitespace is
\* skipped first.
parse_statements_many_loop(self, statements, diagnostics, iter_count) ==
    parse_statements_many_at(skip_whitespace(self), statements, diagnostics, iter_count)

\* The iteration at its first symbol: the closing brace, or a statement.
parse_statements_many_at(self, statements, diagnostics, iter_count) ==
    IF Dead(self) THEN Aborted(self)
    ELSE IF peek(self).symbol = Sym("BraceClose")
    THEN ParserOutput(consume(self), Some(statements), diagnostics)
    ELSE parse_statements_many_statement(parse_statement(self), statements, diagnostics,
                                         iter_count)

\* The iteration with its statement parsed: after StatementErrorLimit
\* iterations a diagnostic ends the loop.
parse_statements_many_statement(stmt, statements, diagnostics, iter_count) ==
    IF stmt.p.panic THEN Aborted(stmt.p)
    ELSE IF diagnostics \o stmt.diagnostics # << >> /\ iter_count + 1 > StatementErrorLimit
    THEN ParserOutput(stmt.p, Some(statements \o stmt.output),
                      diagnostics \o stmt.diagnostics)
    ELSE parse_statements_many_loop(stmt.p, statements \o stmt.output,
                                    diagnostics \o stmt.diagnostics, iter_count + 1)

\* Parser::parse_statements_many
parse_statements_many(self) ==
    IF Dead(self)
    THEN Aborted(self)
    ELSE parse_statements_many_loop(skip_whitespace(self), << >>, << >>, 0)

\* Parser::parse_conditional: the keyword is consumed, then the condition.
parse_conditional(self) ==
    IF Dead(self) THEN Aborted(self)
    ELSE parse_conditional_block(parse_expr(skip_whitespace(consume(self)), 0))

\* parse_conditional after the condition: the block.
parse_conditional_block(condition) ==
    IF condition.output = None
    THEN transmute_error(condition)
    ELSE parse_conditional_first(condition, parse_block(skip_whitespace(condition.p)))

\* parse_conditional after the first block: the diagnostics of the condition
\* and of the block are not kept.
parse_conditional_first(condition, block_result) ==
    IF block_result.output = None
    THEN transmute_error(block_result)
    ELSE parse_conditional_elif(
             block_result.p,
             <<BranchOf(Some(condition.output[1]), block_result.output[1])>>, << >>)

\* One iteration of the elif loop of parse_conditional: the whitespace is
\* skipped first.
parse_conditional_elif(self, branches, diagnostics) ==
    parse_conditional_elif_at(skip_whitespace(self), branches, diagnostics)

\* The iteration at its first symbol: anything but Elif ends the loop.
parse_conditional_elif_at(self, branches, diagnostics) ==
    IF Dead(self) THEN Aborted(self)
    ELSE IF peek(self).symbol # Sym("Elif")
    THEN parse_conditional_else(self, branches, diagnostics)
    ELSE parse_conditional_elif_condition(
             parse_expr(skip_whitespace(consume(self)), 0), branches, diagnostics)

\* The iteration with its condition parsed.
parse_conditional_elif_condition(elif_condition, branches, diagnostics) ==
    IF elif_condition.p.panic THEN Aborted(elif_condition.p)
    ELSE IF elif_condition.output = None
    THEN parse_conditional_else(elif_condition.p, branches,
                                diagnostics \o elif_condition.diagnostics)
    ELSE parse_conditional_elif_block(
             elif_condition, parse_block(skip_whitespace(elif_condition.p)),
             branches, diagnostics)

\* The iteration with its block parsed.
parse_conditional_elif_block(elif_condition, elif_block, branches, diagnostics) ==
    IF elif_block.p.panic THEN Aborted(elif_block.p)
    ELSE IF elif_block.output = None
    THEN parse_conditional_else(elif_block.p, branches,
                                diagnostics \o elif_block.diagnostics)
    ELSE parse_conditional_elif(
             elif_block.p,
             Append(branches,
                    BranchOf(Some(elif_condition.output[1]), elif_block.output[1])),
             diagnostics)

\* parse_conditional after the elif loop: the whitespace is skipped first.
parse_conditional_else(self, branches, diagnostics) ==
    parse_conditional_else_at(skip_whitespace(self), branches, diagnostics)

\* parse_conditional at the symbol after the elif loop: the else block, if any.
parse_conditional_else_at(self, branches, diagnostics) ==
    IF Dead(self) THEN Aborted(self)
    ELSE IF peek(self).symbol = Sym("Else")
    THEN parse_conditional_else_block(
             parse_block(skip_whitespace(consume(self))), branches, diagnostics)
    ELSE parse_conditional_result(self, branches, diagnostics)

\* parse_conditional with the else block parsed.
parse_conditional_else_block(else_block, branches, diagnostics) ==
    IF else_block.p.panic THEN Aborted(else_block.p)
    ELSE IF else_block.output = None
    THEN err(else_block.p, diagnostics \o else_block.diagnostics)
    ELSE parse_conditional_result(
             else_block.p, Append(branches, BranchOf(None, else_block.output[1])),
             diagnostics)

\* The result of parse_conditional.
parse_conditional_result(self, branches, diagnostics) ==
    IF diagnostics # << >>
    THEN err(self, diagnostics)
    ELSE okay(self, StatementConditional(branches))

\* Parser::parse_match: the keyword is consumed, then the matched expression.
parse_match(self) ==
    IF Dead(self) THEN Aborted(self)
    ELSE parse_match_brace(parse_expr(skip_whitespace(consume(self)), 0))

\* parse_match after the matched expression: the opening brace.
parse_match_brace(match_expr) ==
    IF match_expr.output = None
    THEN transmute_error(match_expr)
    ELSE parse_match_opened(then_ignore(skip_whitespace(match_expr.p), Sym("BraceOpen")))

\* parse_match after the opening brace: the loop.
parse_match_opened(brace_result) ==
    IF brace_result.output = None
    THEN transmute_error(brace_result)
    ELSE parse_match_loop(brace_result.p, << >>, << >>)

\* One iteration of the loop of parse_match: the whitespace is skipped first.
parse_match_loop(self, branches, diagnostics) ==
    parse_match_at(skip_whitespace(self), branches, diagnostics)

\* The result of parse_match, the loop being left at self.
parse_match_finish(self, branches, diagnostics) ==
    IF self.panic THEN Aborted(self)
    ELSE IF diagnostics # << >> THEN err(self, diagnostics)
    ELSE okay(self, StatementConditional(branches))

\* The iteration at its first symbol: the closing brace, or a pattern.
parse_match_at(self, branches, diagnostics) ==
    IF Dead(self) THEN Aborted(self)
    ELSE IF peek(self).symbol = Sym("BraceClose")
    THEN parse_match_finish(consume(self), branches, diagnostics)
    ELSE IF peek(self).symbol = Sym("Underscore")
    THEN parse_match_arrow(ParserOutput(consume(self), Some(None), << >>),
                           branches, diagnostics)
    ELSE parse_match_arrow(parse_match_pattern(parse_expr(self, 0)), branches, diagnostics)

\* parse_match_pattern that takes every pattern for the catch-all.
parse_match_pattern_catch_all(expr) ==
    ParserOutput(expr.p, IF expr.output = None THEN None ELSE Some(None),
                 expr.diagnostics)

\* The condition of a branch, from the expression of its pattern.
parse_match_pattern(expr) ==
    ParserOutput(expr.p,
                 IF expr.output = None THEN None ELSE Some(Some(expr.output[1])),
                 expr.diagnostics)

\* The iteration after its pattern: the arrow.
parse_match_arrow(pattern, branches, diagnostics) ==
    IF pattern.output = None
    THEN parse_match_finish(pattern.p, branches, diagnostics \o pattern.diagnostics)
    ELSE parse_match_body(pattern,
                          then_ignore(skip_whitespace(pattern.p), Sym("FatArrow")),
                          branches, diagnostics)

\* The iteration after its arrow: the whitespace before the computation.
parse_match_body(pattern, arrow_result, branches, diagnostics) ==
    IF arrow_result.output = None
    THEN parse_match_finish(arrow_result.p, branches,
                            diagnostics \o arrow_result.diagnostics)
    ELSE parse_match_body_at(pattern, skip_whitespace(arrow_result.p), branches,
                             diagnostics)

\* The iteration at its computation: a block, or an expression.
parse_match_body_at(pattern, self, branches, diagnostics) ==
    IF Dead(self) THEN Aborted(self)
    ELSE IF peek(self).symbol = Sym("BraceOpen")
    THEN parse_match_block(pattern, parse_block(self), branches, diagnostics)
    ELSE parse_match_expr(pattern, parse_expr(self, 0), branches, diagnostics)

\* The comma expected after a block, unless the closing brace follows it: the
\* result of the then_ignore is dropped.
parse_match_after_block(self) ==
    IF lookahead(self).symbol = Sym("BraceClose")
    THEN self
    ELSE then_ignore(self, Sym("Comma")).p

\* The iteration with its block parsed.
parse_match_block(pattern, block_result, branches, diagnostics) ==
    IF Dead(block_result.p) THEN Aborted(block_result.p)
    ELSE IF block_result.output = None
    THEN parse_match_finish(parse_match_after_block(block_result.p), branches,
                            diagnostics \o block_result.diagnostics)
    ELSE parse_match_loop(
             parse_match_after_block(block_result.p),
             Append(branches, BranchOf(pattern.output[1], block_result.output[1])),
             diagnostics)

\* The iteration with its expression parsed: the comma is expected unless the
\* closing brace follows.
parse_match_expr(pattern, expr, branches, diagnostics) ==
    IF expr.output = None
    THEN parse_match_finish(expr.p, branches, diagnostics \o expr.diagnostics)
    ELSE IF Dead(expr.p) THEN Aborted(expr.p)
    ELSE parse_match_separator(
             pattern, expr,
             IF lookahead(expr.p).symbol = Sym("BraceClose")
             THEN okay(expr.p, Unit)
             ELSE then_ignore(expr.p, Sym("Comma")),
             branches, diagnostics)

\* The iteration after the comma of its expression.
parse_match_separator(pattern, expr, semi_result, branches, diagnostics) ==
    IF semi_result.output = None
    THEN parse_match_finish(semi_result.p, branches,
                            diagnostics \o semi_result.diagnostics)
    ELSE parse_match_loop(
             semi_result.p,
             Append(branches,
                    BranchOf(pattern.output[1], <<StatementReturn(expr.output[1])>>)),
             diagnostics)

\* Parser::parse_function: the declaration, and every part after it whether
\* the parts before it failed or not.
parse_function(self) == parse_function_metadata_of(parse_function_declaration(self))

\* parse_function after the declaration: the metadata block.
parse_function_metadata_of(declaration) ==
    parse_function_contracts_of(
        declaration,
        with_whitespace_after(parse_function_metadata(skip_whitespace(declaration.p))))

\* parse_function after the metadata block: the contracts block.
parse_function_contracts_of(declaration, metadata) ==
    parse_function_statements_of(
        declaration, metadata,
        with_whitespace_after(parse_function_contracts(skip_whitespace(metadata.p))))

\* parse_function after the contracts block: the statements.
parse_function_statements_of(declaration, metadata, contracts) ==
    parse_function_result(
        declaration, metadata, contracts,
        with_whitespace_after(parse_statements_many(skip_whitespace(contracts.p))))

\* The result of parse_function: an error when any part failed.
parse_function_result(declaration, metadata, contracts, statements) ==
    IF statements.p.panic THEN Aborted(statements.p)
    ELSE IF \/ declaration.output = None
            \/ metadata.output = None
            \/ contracts.output = None
            \/ statements.output = None
    THEN err(statements.p,
             declaration.diagnostics \o metadata.diagnostics
             \o contracts.diagnostics \o statements.diagnostics)
    ELSE ParserOutput(statements.p,
                      Some(FunctionOf(declaration.output[1],
                                      metadata.output[1].properties,
                                      metadata.output[1].permissions,
                                      contracts.output[1], statements.output[1])),
                      declaration.diagnostics \o metadata.diagnostics
                      \o contracts.diagnostics \o statements.diagnostics)

\* The closures given to parse_list_comma_separated and parse_metadata_list as
\* parse_item, by name.
parse_item(self, item) ==
    CASE item = "expr" -> parse_expr(self, 0)
      [] item = "identifier" ->
            with_whitespace_after(then_identifier(skip_whitespace(self)))
      [] item = "field_mandatory_type" ->
            with_whitespace_after(parse_field_mandatory_type(skip_whitespace(self)))
      [] item = "field_optional_type" ->
            with_whitespace_after(parse_field_optional_type(skip_whitespace(self)))
      [] item = "parameter" -> parse_field_mandatory_type(self)
      [] item = "data_properties" -> parse_data_properties(self)
      [] item = "data_traits" -> parse_data_traits(self)
      [] item = "fn_properties" -> parse_fn_properties(self)
      [] item = "fn_permissions" -> parse_fn_permissions(self)


\* ------------------------------------------------------------------ parser: top level

\* The match of parse_top_level_declaration.
parse_top_level_declaration_at(self) ==
    IF Dead(self) THEN Aborted(self)
    ELSE IF peek(self).symbol = Sym("Struct") THEN parse_struct(self)
    ELSE IF peek(self).symbol = Sym("Enum") THEN parse_enum(self)
    ELSE IF peek(self).symbol = Sym("Import") THEN parse_import(self)
    ELSE IF peek(self).symbol = Sym("Function") THEN parse_function(self)
    ELSE single_error(self, <<"error in top level declaration", peek(self).symbol>>)

\* Parser::parse_top_level_declaration: the whitespace is skipped first.
parse_top_level_declaration(self) ==
    parse_top_level_declaration_at(skip_whitespace(self))

RECURSIVE parse_list_newline_separated_loop(_, _, _)
RECURSIVE parse_list_newline_separated_at(_, _, _)
RECURSIVE parse_list_newline_separated_item(_, _, _, _)

\* One iteration of the loop of parse_list_newline_separated over top-level
\* declarations, from its items and diagnostics so far: it ends with the tokens.
parse_list_newline_separated_loop(self, items, diagnostics) ==
    IF ~self.panic /\ self.offset >= Len(self.tokens)
    THEN ParserOutput(self, Some(items), diagnostics)
    ELSE parse_list_newline_separated_at(skip_whitespace(self), items, diagnostics)

\* The iteration after the leading whitespace: the declaration.
parse_list_newline_separated_at(self, items, diagnostics) ==
    IF Dead(self) THEN Aborted(self)
    ELSE parse_list_newline_separated_item(self.offset, parse_top_level_declaration(self),
                                           items, diagnostics)

\* The iteration with its declaration parsed: on a failure at a closing brace
\* or a NewLine the loop ends before the diagnostics are kept.
parse_list_newline_separated_item(initial_offset, item, items, diagnostics) ==
    IF Dead(item.p) THEN Aborted(item.p)
    ELSE IF item.output # None
    THEN parse_list_newline_separated_loop(skip_whitespace(item.p),
                                           Append(items, item.output[1]),
                                           diagnostics \o item.diagnostics)
    ELSE IF peek(item.p).symbol \in {Sym("BraceClose"), NewLine}
    THEN ParserOutput(item.p, Some(items), diagnostics)
    ELSE IF item.p.offset = initial_offset
    THEN ParserOutput(item.p, Some(items), diagnostics \o item.diagnostics)
    ELSE parse_list_newline_separated_loop(skip_whitespace(item.p), items,
                                           diagnostics \o item.diagnostics)

\* Parser::parse_list_newline_separated over top-level declarations
parse_list_newline_separated(self) ==
    parse_list_newline_separated_loop(self, << >>, << >>)

\* Parser::parse_all
parse_all(self) ==
    IF Dead(self) THEN Aborted(self) ELSE parse_list_newline_separated(self)

\* ------------------------------------------------------------------ state

VARIABLES
    tables,         \* the ParsingTables of the compilation
    updates,        \* number of ParsingTables::update calls so far
    asked,          \* <<file, item>> for every item a processed import asked for
    declared,       \* <<module, name, flag>> for every flagged declaration processed
    mentioned,      \* the types the processed declarations mention
    signature       \* module -> the types of the functions of its last AST

tableVars == <<tables, updates, asked, declared, mentioned, signature>>

VARIABLES
    files,                  \* the file system: path -> the AST its text parses to
    entrypoint_filepath,    \* the argument of parse_all_reachable
    output,                 \* the HashMap<String, Vec<ASTNode>> being built
    stack,                  \* the active parse_recursively calls, innermost last
    pc,                     \* where parse_all_reachable stands
    parsed                  \* path -> number of ASTs file_to_ast returned for it

pipelineVars == <<files, entrypoint_filepath, output, stack, pc, parsed>>

VARIABLES
    type_table,         \* the TypeTable given to generate_templated_libs
    generated_libs,     \* the Vec generate_templated_libs returned
    codegen_pc          \* where the call of generate_templated_libs stands

codegenVars == <<type_table, generated_libs, codegen_pc>>

\* The code generator before any call.
CodegenIdle ==
    /\ type_table = TypeTable_new
    /\ generated_libs = << >>
    /\ codegen_pc = "idle"

VARIABLES
    code,       \* the text given to Lexer::lex
    chars,      \* the characters the cursor of Lexer::lex has not consumed
    lexer,      \* the Lexer
    starts,     \* for every token of the stream, where in code its lexeme starts
    lex_pc      \* where the call of Lexer::lex stands

lexVars == <<code, chars, lexer, starts, lex_pc>>

\* The lexer before any call.
LexIdle ==
    /\ code = << >>
    /\ chars = << >>
    /\ lexer = Lexer_new("test")
    /\ starts = << >>
    /\ lex_pc = "idle"

VARIABLES
    parser_out,     \* the ParserOutput the parser returned, with its Parser
    joined,         \* the join point that gave parser_out and what it was given
    file_result,    \* what file_to_ast returned and wrote to stderr
    parse_pc        \* which entry point of the parser has been called

parseVars == <<parser_out, joined, file_result, parse_pc>>

\* The parser before any call.
ParseIdle ==
    /\ parser_out = ParserOutput(Parser_new(<< >>), None, << >>)
    /\ joined = None
    /\ file_result = None
    /\ parse_pc = "idle"

frontVars == <<codegenVars, lexVars, parseVars>>

\* The components outside the tables and the driver, before any call.
FrontIdle == CodegenIdle /\ LexIdle /\ ParseIdle

vars == <<tableVars, pipelineVars, frontVars>>

\* ------------------------------------------------------------------ what an AST says

DeclarationKinds == {"StructDeclaration", "EnumDeclaration", "FunctionDeclaration"}

DataKinds == {"StructDeclaration", "EnumDeclaration"}

NodesOfKind(ast, kinds) == {ast[i] : i \in {j \in DOMAIN ast : ast[j].kind \in kinds}}

FieldTypes(fields) == {fields[i].field_type : i \in DOMAIN fields}

\* <<file, item>> for every item an import of the AST asks for.
AskedBy(ast) ==
    UNION {{<<n.file, item>> : item \in Range(n.items)} :
              n \in NodesOfKind(ast, {"ImportStatement"})}

\* <<module, name, flag>> for every flag of every declaration of the AST.
DeclaredBy(ast, module_name) ==
    UNION {{<<module_name, n.name, flag>> : flag \in n.properties} :
              n \in NodesOfKind(ast, DeclarationKinds)}

\* The declared types of the VariableDeclaration statements, at any depth.
RECURSIVE DeclaredTypes(_)
DeclaredTypes(statements) ==
    UNION {IF st.kind = "VariableDeclaration" THEN {st.type_}
           ELSE IF st.kind = "Conditional"
                THEN UNION {DeclaredTypes(b.computations) : b \in Range(st.branches)}
                ELSE {} : st \in Range(statements)}

\* The types a function mentions: return type, argument types, declared types.
FunctionTypes(f) == {f.returns} \cup FieldTypes(f.args) \cup DeclaredTypes(f.statements)

\* Every type the declarations of the AST mention.
MentionedBy(ast) ==
    UNION {{Custom(n.name)} \cup FieldTypes(n.fields) : n \in NodesOfKind(ast, DataKinds)}
    \cup UNION {FunctionTypes(n) : n \in NodesOfKind(ast, {"FunctionDeclaration"})}

\* The types the module of the AST uses: field types and function types.
UsedBy(ast) ==
    UNION {FieldTypes(n.fields) : n \in NodesOfKind(ast, DataKinds)}
    \cup UNION {FunctionTypes(n) : n \in NodesOfKind(ast, {"FunctionDeclaration"})}

\* ------------------------------------------------------------------ operations

\* One call tables.update(&nodes, &module_name), with what the call was given.
Feed(nodes, module_name) ==
    /\ tables' = ParsingTables_update(tables, nodes, module_name)
    /\ updates' = updates + 1
    /\ asked' = asked \cup AskedBy(nodes)
    /\ declared' = declared \cup DeclaredBy(nodes, module_name)
    /\ mentioned' = mentioned \cup MentionedBy(nodes)
    /\ signature' = Put(signature, module_name, UsedBy(nodes))

\* parsing_status is a public field: the table of a compilation starts empty,
\* or with the modules a caller has marked parsed.
InitialStatus == {EmptyMap, [m \in Modules |-> TRUE]}

TableInit ==
    /\ \E status \in InitialStatus :
          tables = [ParsingTables_new EXCEPT !.modules.parsing_status = status]
    /\ updates = 0
    /\ asked = {}
    /\ declared = {}
    /\ mentioned = {}
    /\ signature = EmptyMap
    /\ files = EmptyMap
    /\ entrypoint_filepath = Path(ModuleNames[1], "iona")
    /\ output = EmptyMap
    /\ stack = << >>
    /\ pc = "tables"
    /\ parsed = [p \in Paths |-> 0]
    /\ FrontIdle

\* ParsingTables::update on any AST under any module name.
Update ==
    /\ updates < MaxUpdates
    /\ \E ast \in ASTs, module_name \in Modules : Feed(ast, module_name)
    /\ UNCHANGED <<pipelineVars, frontVars>>

TableNext == Update

TableSpec == TableInit /\ [][TableNext]_vars

\* ------------------------------------------------------------------ pipeline

\* file_to_ast: Err when the file cannot be read, else the nodes of its AST.
file_to_ast(filepath) ==
    IF filepath \in DOMAIN files
    THEN [ok |-> TRUE, nodes |-> files[filepath]]
    ELSE [ok |-> FALSE, nodes |-> << >>]

\* A call of parse_recursively: the clone of parsing_status it iterates over
\* and the keys the for loop has not reached yet.
Frame(status) == [snapshot |-> status, todo |-> DOMAIN status]

\* One more file_to_ast result for the path.
Count(path) == [parsed EXCEPT ![path] = @ + 1]

Init ==
    /\ tables = ParsingTables_new
    /\ updates = 0
    /\ asked = {}
    /\ declared = {}
    /\ mentioned = {}
    /\ signature = EmptyMap
    /\ \E present \in SUBSET Paths : files \in [present -> FileASTs]
    /\ entrypoint_filepath \in {Path(ModuleNames[1], "iona"), Path_new(ModuleNames[1])}
    /\ output = EmptyMap
    /\ stack = << >>
    /\ pc = "start"
    /\ parsed = [p \in Paths |-> 0]
    /\ FrontIdle

\* parse_all_reachable up to its call of parse_recursively.
Start ==
    /\ pc = "start"
    /\ LET r == file_to_ast(entrypoint_filepath)
       IN  IF ~r.ok
           THEN /\ pc' = "err"
                /\ UNCHANGED <<tableVars, output, stack, parsed>>
           ELSE /\ Feed(r.nodes, file_stem(entrypoint_filepath))
                /\ output' = Put(output, entrypoint_filepath, r.nodes)
                /\ parsed' = Count(entrypoint_filepath)
                /\ stack' = <<Frame(tables'.modules.parsing_status)>>
                /\ pc' = "running"
    /\ UNCHANGED <<files, entrypoint_filepath, frontVars>>

\* One iteration of the for loop of the innermost parse_recursively: the map
\* iterator yields any entry of the clone that it has not yielded yet.
Visit ==
    /\ pc = "running"
    /\ LET top == stack[Len(stack)]
       IN  \E module \in top.todo :
             LET rest == [stack EXCEPT ![Len(stack)].todo = @ \ {module}]
                 new_path == Path_new(module)
                 r == file_to_ast(new_path)
             IN  IF top.snapshot[module]
                 THEN /\ stack' = rest
                      /\ UNCHANGED <<tableVars, output, pc, parsed>>
                 ELSE IF ~r.ok
                 THEN \* the ? operator returns the Err through every caller
                      /\ pc' = "err"
                      /\ stack' = << >>
                      /\ UNCHANGED <<tableVars, output, parsed>>
                 ELSE /\ Feed(r.nodes, file_stem(new_path))
                      /\ output' = Put(output, new_path, r.nodes)
                      /\ parsed' = Count(new_path)
                      /\ IF Len(stack) < MaxDepth
                         THEN /\ stack' = Append(rest, Frame(tables'.modules.parsing_status))
                              /\ pc' = pc
                         ELSE \* the recursive call exhausts the call stack
                              /\ stack' = rest
                              /\ pc' = "overflow"
    /\ UNCHANGED <<files, entrypoint_filepath, frontVars>>

\* The for loop of the innermost parse_recursively is over: it returns Ok(()),
\* to its caller's loop or to parse_all_reachable, which returns Ok(output).
ReturnOk ==
    /\ pc = "running"
    /\ stack[Len(stack)].todo = {}
    /\ stack' = SubSeq(stack, 1, Len(stack) - 1)
    /\ pc' = IF Len(stack) = 1 THEN "ok" ELSE pc
    /\ UNCHANGED <<tableVars, files, entrypoint_filepath, output, parsed, frontVars>>

Next == Start \/ Visit \/ ReturnOk

Spec == Init /\ [][Next]_vars

\* The compiler is one sequential thread: it takes its next step whenever it
\* has one.
FairSpec == Spec /\ WF_vars(Next)

\* ------------------------------------------------------------------ code generation

\* The tables and the driver of a run that only exercises a front-end component.
TablesIdle ==
    /\ tables = ParsingTables_new
    /\ updates = 0
    /\ asked = {}
    /\ declared = {}
    /\ mentioned = {}
    /\ signature = EmptyMap
    /\ files = EmptyMap
    /\ entrypoint_filepath = Path(ModuleNames[1], "iona")
    /\ output = EmptyMap
    /\ stack = << >>
    /\ pc = "front"
    /\ parsed = [p \in Paths |-> 0]

CodegenInit ==
    /\ TablesIdle
    /\ \E types \in TypeLists :
          type_table = [TypeTable_new EXCEPT !.type_list = types]
    /\ generated_libs = << >>
    /\ codegen_pc = "ready"
    /\ LexIdle
    /\ ParseIdle

\* One call generate_templated_libs(&type_table).
Generate ==
    /\ codegen_pc = "ready"
    /\ LET r == generate_templated_libs(type_table)
       IN  /\ generated_libs' = r.generated_libs
           /\ codegen_pc' = IF r.panic THEN "panic" ELSE "done"
    /\ UNCHANGED <<tableVars, pipelineVars, type_table, lexVars, parseVars>>

CodegenNext == Generate

CodegenSpec == CodegenInit /\ [][CodegenNext]_vars

\* ------------------------------------------------------------------ lexing

LexInit ==
    /\ TablesIdle
    /\ CodegenIdle
    /\ code \in Texts
    /\ chars = code
    /\ lexer = Lexer_new("test")
    /\ starts = << >>
    /\ lex_pc = "lexing"
    /\ ParseIdle

\* One iteration of the outer loop of Lexer::lex.
LexStep ==
    /\ lex_pc = "lexing"
    /\ chars # << >>
    /\ LET r == lex_one(lexer, chars)
       IN  /\ lexer' = r.self
           /\ chars' = r.chars
           /\ lex_pc' = IF r.panic THEN "panic" ELSE lex_pc
           /\ starts' = IF Len(r.self.token_stream) > Len(lexer.token_stream)
                        THEN Append(starts, Len(code) - Len(chars) + 1)
                        ELSE starts
    /\ UNCHANGED <<tableVars, pipelineVars, codegenVars, code, parseVars>>

\* The cursor is at the end of the text: Lexer::lex adds the trailing NewLine
\* and returns.
LexFinish ==
    /\ lex_pc = "lexing"
    /\ chars = << >>
    /\ lexer' = lex_finish(lexer)
    /\ starts' = Append(starts, 0)
    /\ lex_pc' = "done"
    /\ UNCHANGED <<tableVars, pipelineVars, codegenVars, code, chars, parseVars>>

LexNext == LexStep \/ LexFinish

LexSpec == LexInit /\ [][LexNext]_vars

\* ------------------------------------------------------------------ parsing

\* A struct with one field and its metadata block.
StructText ==
    <<"s", "t", "r", "u", "c", "t", " ", "A", " ", "{", NL, "a", ":", " ", "I", "n", "t",
      ",", NL, "@", "m", "e", "t", "a", "d", "a", "t", "a", " ", "{", NL, "I", "s", ":",
      " ", "P", "u", "b", "l", "i", "c", ";", NL, "}", NL, "}">>

\* A struct with neither fields nor metadata block.
EmptyStructText ==
    <<"s", "t", "r", "u", "c", "t", " ", "A", " ", "{", NL, "}">>

\* An import of two items.
ImportText ==
    <<"i", "m", "p", "o", "r", "t", " ", "a", " ", "w", "i", "t", "h", " ", "b", ",", " ",
      "c", ";">>

\* An import whose semicolon is missing.
OpenImportText ==
    <<"i", "m", "p", "o", "r", "t", " ", "a", " ", "w", "i", "t", "h", " ", "b">>

\* A function with neither metadata nor contracts.
FnPlainText ==
    <<"f", "n", " ", "f", "(", "a", ":", " ", "I", "n", "t", ")", " ", "-", ">", " ", "I",
      "n", "t", " ", "{", NL, "f", "(", "a", ")", ";", NL, "}">>

\* A function with a metadata block only.
FnMetadataText ==
    <<"f", "n", " ", "f", "(", "a", ":", " ", "I", "n", "t", ")", " ", "-", ">", " ", "I",
      "n", "t", " ", "{", NL, "@", "m", "e", "t", "a", "d", "a", "t", "a", " ", "{", NL,
      "I", "s", ":", " ", "P", "u", "b", "l", "i", "c", ";", NL, "}", NL, "}">>

\* A function with a contracts block only.
FnContractsText ==
    <<"f", "n", " ", "f", "(", "a", ":", " ", "I", "n", "t", ")", " ", "-", ">", " ", "I",
      "n", "t", " ", "{", NL, "@", "c", "o", "n", "t", "r", "a", "c", "t", "s", " ", "{",
      NL, "I", "n", ":", " ", "(", "a", " ", ">", " ", "0", ",", " ", Quote, "m", Quote,
      ")", NL, "}", NL, "}">>

\* A function with a metadata block and a contracts block.
FnBothText ==
    <<"f", "n", " ", "f", "(", "a", ":", " ", "I", "n", "t", ")", " ", "-", ">", " ", "I",
      "n", "t", " ", "{", NL, "@", "m", "e", "t", "a", "d", "a", "t", "a", " ", "{", NL,
      "I", "s", ":", " ", "P", "u", "b", "l", "i", "c", ";", NL, "}", NL, "@", "c", "o",
      "n", "t", "r", "a", "c", "t", "s", " ", "{", NL, "I", "n", ":", " ", "(", "a", " ",
      ">", " ", "0", ",", " ", Quote, "m", Quote, ")", NL, "}", NL, "}">>

\* An enum whose variants all end in a comma.
EnumCommaText ==
    <<"e", "n", "u", "m", " ", "E", " ", "{", NL, "A", ",", NL, "B", ",", NL, "@", "m",
      "e", "t", "a", "d", "a", "t", "a", " ", "{", NL, "I", "s", ":", " ", "P", "u", "b",
      "l", "i", "c", ";", NL, "}", NL, "}">>

\* An enum whose last variant is followed directly by the metadata block.
EnumLastText ==
    <<"e", "n", "u", "m", " ", "E", " ", "{", NL, "A", ",", NL, "B", NL, "@", "m", "e",
      "t", "a", "d", "a", "t", "a", " ", "{", NL, "I", "s", ":", " ", "P", "u", "b", "l",
      "i", "c", ";", NL, "}", NL, "}">>

\* The call of tests::expr_7.
CallText ==
    <<"a", "d", "d", "(", "2", ",", " ", "5", " ", "*", " ", "a", ")">>

\* A struct whose metadata block starts with a line no arm knows.
MetadataUnknownText ==
    <<"s", "t", "r", "u", "c", "t", " ", "A", " ", "{", NL, "a", ":", " ", "I", "n", "t",
      ",", NL, "@", "m", "e", "t", "a", "d", "a", "t", "a", " ", "{", NL, "x", NL, "I",
      "s", ":", " ", "P", "u", "b", "l", "i", "c", ";", NL, "D", "e", "r", "i", "v", "e",
      "s", ":", " ", "E", "q", ";", NL, "}", NL, "}">>

\* A function whose first contract has no comma before its message.
ContractsNoCommaText ==
    <<"f", "n", " ", "f", "(", "a", ":", " ", "I", "n", "t", ")", " ", "-", ">", " ", "I",
      "n", "t", " ", "{", NL, "@", "m", "e", "t", "a", "d", "a", "t", "a", " ", "{", NL,
      "I", "s", ":", " ", "P", "u", "b", "l", "i", "c", ";", NL, "}", NL, "@", "c", "o",
      "n", "t", "r", "a", "c", "t", "s", " ", "{", NL, "I", "n", ":", " ", "(", "a", " ",
      ">", " ", "0", " ", Quote, "m", Quote, ")", NL, "O", "u", "t", ":", " ", "(", "a",
      " ", ">", " ", "1", ",", " ", Quote, "n", Quote, ")", NL, "}", NL, "}">>

\* A function whose first contract of three has no closing parenthesis.
ContractsNoParenText ==
    <<"f", "n", " ", "f", "(", "a", ":", " ", "I", "n", "t", ")", " ", "-", ">", " ", "I",
      "n", "t", " ", "{", NL, "@", "m", "e", "t", "a", "d", "a", "t", "a", " ", "{", NL,
      "I", "s", ":", " ", "P", "u", "b", "l", "i", "c", ";", NL, "}", NL, "@", "c", "o",
      "n", "t", "r", "a", "c", "t", "s", " ", "{", NL, "I", "n", ":", " ", "(", "a", " ",
      ">", " ", "0", ",", " ", Quote, "m", Quote, NL, "O", "u", "t", ":", " ", "(", "a",
      " ", ">", " ", "1", ",", " ", Quote, "n", Quote, ")", NL, "I", "n", ":", " ", "(",
      "a", " ", ">", " ", "2", ",", " ", Quote, "o", Quote, ")", NL, "}", NL, "}">>

\* A function whose contracts block has no contract.
ContractsEmptyText ==
    <<"f", "n", " ", "f", "(", "a", ":", " ", "I", "n", "t", ")", " ", "-", ">", " ", "I",
      "n", "t", " ", "{", NL, "@", "m", "e", "t", "a", "d", "a", "t", "a", " ", "{", NL,
      "I", "s", ":", " ", "P", "u", "b", "l", "i", "c", ";", NL, "}", NL, "@", "c", "o",
      "n", "t", "r", "a", "c", "t", "s", " ", "{", NL, "}", NL, "}">>

\* A function whose text ends inside its first contract.
ContractsTruncatedText ==
    <<"f", "n", " ", "f", "(", "a", ":", " ", "I", "n", "t", ")", " ", "-", ">", " ", "I",
      "n", "t", " ", "{", NL, "@", "m", "e", "t", "a", "d", "a", "t", "a", " ", "{", NL,
      "I", "s", ":", " ", "P", "u", "b", "l", "i", "c", ";", NL, "}", NL, "@", "c", "o",
      "n", "t", "r", "a", "c", "t", "s", " ", "{", NL, "I", "n", ":", " ", "(", "a">>

\* A function without parameters.
NoParametersText ==
    <<"f", "n", " ", "f", "(", ")", " ", "-", ">", " ", "I", "n", "t", " ", "{", NL, "f",
      "(", "a", ")", ";", NL, "}">>

\* A function whose parameter list ends in a comma.
TrailingCommaText ==
    <<"f", "n", " ", "f", "(", "a", ":", " ", "I", "n", "t", ",", ")", " ", "-", ">", " ",
      "I", "n", "t", " ", "{", NL, "f", "(", "a", ")", ";", NL, "}">>

\* A call without arguments.
NoArgumentsText ==
    <<"f", "(", ")">>

\* A call whose argument list ends in a comma.
TrailingArgumentText ==
    <<"f", "(", "a", ",", " ", ")">>

\* An import followed by a character no arm of the lexer knows.
UnexpectedCharacterText ==
    <<"i", "m", "p", "o", "r", "t", " ", "a", " ", "w", "i", "t", "h", " ", "b", ",", " ",
      "c", ";", "$">>

\* A call of thirty arguments: thirty-one expressions, none nested deeper than two.
ManyArgumentsText ==
    <<"f", "(", "a", ",", "a", ",", "a", ",", "a", ",", "a", ",", "a", ",", "a", ",", "a",
      ",", "a", ",", "a", ",", "a", ",", "a", ",", "a", ",", "a", ",", "a", ",", "a", ",",
      "a", ",", "a", ",", "a", ",", "a", ",", "a", ",", "a", ",", "a", ",", "a", ",", "a",
      ",", "a", ",", "a", ",", "a", ",", "a", ",", "a", ")">>

\* The binary operators the lexer has a symbol for.
OperatorChars == {"+", "-", "*", "/", "%", "<", ">"}

\* `a op1 b op2 c`, written without and with spaces.
InfixText(a, op1, b, op2, c) == <<a, op1, b, op2, c>>
SpacedInfixText(a, op1, b, op2, c) == <<a, " ", op1, " ", b, " ", op2, " ", c>>

ExpressionTexts ==
    {InfixText("a", op1, "b", op2, "c") : op1 \in OperatorChars, op2 \in OperatorChars}
    \cup {SpacedInfixText("a", op1, "2", op2, "c") :
              op1 \in OperatorChars, op2 \in OperatorChars}
    \cup {CallText}

FunctionTexts == {FnPlainText, FnMetadataText, FnContractsText, FnBothText}

EnumTexts == {EnumCommaText, EnumLastText}

ProgramTexts ==
    {StructText, EmptyStructText, ImportText, OpenImportText}
    \cup FunctionTexts \cup EnumTexts

\* The texts of the parser's recovery and of its lists.
RecoveryTexts ==
    {MetadataUnknownText, ContractsNoCommaText, ContractsNoParenText, ContractsEmptyText,
     ContractsTruncatedText, NoParametersText, TrailingCommaText,
     UnexpectedCharacterText}

\* The calls whose argument list is empty or ends in a comma.
ListTexts == {NoArgumentsText, TrailingArgumentText}

\* The texts of more expressions than the recursion limit.
SequenceTexts == {ManyArgumentsText}

\* `a op b[i]`
IndexText(a, op, b, i) == <<a, " ", op, " ", b, "[", i, "]">>

\* The texts of an index access on the right operand of a binary operator.
IndexTexts == {IndexText("a", op, "b", "i") : op \in OperatorChars}

ParseInit ==
    /\ TablesIdle
    /\ CodegenIdle
    /\ code \in ProgramTexts \cup RecoveryTexts \cup ExpressionTexts \cup ListTexts
                 \cup SequenceTexts \cup IndexTexts
    /\ chars = code
    /\ lexer = Lexer_new("test")
    /\ starts = << >>
    /\ lex_pc = "lexing"
    /\ parser_out = ParserOutput(Parser_new(<< >>), None, << >>)
    /\ joined = None
    /\ file_result = None
    /\ parse_pc = "ready"

\* Parser::new on the tokens Lexer::lex left, then parse_expr(0), as the tests
\* of expression_parser.rs call it.
ParseExpr ==
    /\ lex_pc = "done"
    /\ parse_pc = "ready"
    /\ parser_out' = parse_expr(Parser_new(lexer.token_stream), 0)
    /\ parse_pc' = "expr"
    /\ UNCHANGED <<tableVars, pipelineVars, codegenVars, lexVars, joined, file_result>>

\* Parser::new on the tokens Lexer::lex left, then parse_all.
ParseAll ==
    /\ lex_pc = "done"
    /\ parse_pc = "ready"
    /\ parser_out' = parse_all(Parser_new(lexer.token_stream))
    /\ parse_pc' = "all"
    /\ UNCHANGED <<tableVars, pipelineVars, codegenVars, lexVars, joined, file_result>>

\* What file_to_ast does with the ParserOutput of parse_all: the Result it
\* returns, the diagnostics rendered into the message of an Err, and the
\* diagnostics rendered to stderr as non-fatal errors. Only out.diagnostics
\* is read. The unwrap of an output that is None panics.
file_to_ast_report(out) ==
    IF out.p.panic
    THEN [result |-> "panic", message |-> << >>, stderr |-> << >>]
    ELSE IF out.diagnostics # << >>
    THEN IF out.output = None
         THEN [result |-> "Err", message |-> out.diagnostics, stderr |-> << >>]
         ELSE [result |-> "Ok", message |-> << >>, stderr |-> out.diagnostics]
    ELSE IF out.output = None
    THEN [result |-> "panic", message |-> << >>, stderr |-> << >>]
    ELSE [result |-> "Ok", message |-> << >>, stderr |-> << >>]

\* file_to_ast on a file of the text, after Lexer::lex: Parser::new on
\* lexer.token_stream, parse_all, and the report.
FileToAst ==
    /\ lex_pc = "done"
    /\ parse_pc = "ready"
    /\ parser_out' = parse_all(Parser_new(lexer.token_stream))
    /\ file_result' = Some(file_to_ast_report(parser_out'))
    /\ parse_pc' = "file"
    /\ UNCHANGED <<tableVars, pipelineVars, codegenVars, lexVars, joined>>

\* Parser::new on the tokens Lexer::lex left, then parse_top_level_declaration,
\* the rule parse_all gives to its list.
ParseTopLevelDeclaration ==
    /\ lex_pc = "done"
    /\ parse_pc = "ready"
    /\ parser_out' = parse_top_level_declaration(Parser_new(lexer.token_stream))
    /\ parse_pc' = "declaration"
    /\ UNCHANGED <<tableVars, pipelineVars, codegenVars, lexVars, joined, file_result>>

ParseNext ==
    LexStep \/ LexFinish \/ ParseExpr \/ ParseAll \/ FileToAst \/ ParseTopLevelDeclaration

ParseSpec == ParseInit /\ [][ParseNext]_vars

\* ------------------------------------------------------------------ statements

\* The most arms a match of the statement streams has.
MaxArms == 2

\* A token of a statement stream, all at one position.
TokenOf(symbol) == Token(symbol, SourcePosition("test", 0, 0))

\* The arms of a match: what the pattern is and what the computation is.
Arms == [pattern : {"literal", "name", "wildcard"}, body : {"expression", "block"}]

\* The tokens of `0`, `y` and `_`.
PatternTokens(pattern) ==
    CASE pattern = "literal" -> <<TokenOf(IntegerSymbol(0))>>
      [] pattern = "name" -> <<TokenOf(Identifier(<<"y">>))>>
      [] pattern = "wildcard" -> <<TokenOf(Sym("Underscore"))>>

\* The tokens of `42` and of `{ return 43; }`.
BodyTokens(body) ==
    IF body = "expression"
    THEN <<TokenOf(IntegerSymbol(42))>>
    ELSE <<TokenOf(Sym("BraceOpen")), TokenOf(Space), TokenOf(Sym("Return")),
           TokenOf(Space), TokenOf(IntegerSymbol(43)), TokenOf(Sym("Semicolon")),
           TokenOf(Space), TokenOf(Sym("BraceClose"))>>

\* The tokens of the arm `pattern => body`.
ArmTokens(arm) ==
    PatternTokens(arm.pattern)
    \o <<TokenOf(Space), TokenOf(Sym("FatArrow")), TokenOf(Space)>>
    \o BodyTokens(arm.body)

RECURSIVE ArmsTokens(_, _)
\* The tokens of the arms, one to a line: a comma after every arm but the
\* last, and after the last when trailing_comma.
ArmsTokens(arms, trailing_comma) ==
    IF arms = << >>
    THEN << >>
    ELSE ArmTokens(Head(arms))
         \o (IF Len(arms) > 1 \/ trailing_comma THEN <<TokenOf(Sym("Comma"))>> ELSE << >>)
         \o <<TokenOf(NewLine)>>
         \o ArmsTokens(Tail(arms), trailing_comma)

\* The tokens of `match x { arms }`, as tests::parse_match writes it, with the
\* NewLine that ends every token stream.
MatchTokens(arms, trailing_comma) ==
    <<TokenOf(Sym("Match")), TokenOf(Space), TokenOf(Identifier(<<"x">>)), TokenOf(Space),
      TokenOf(Sym("BraceOpen")), TokenOf(NewLine)>>
    \o ArmsTokens(arms, trailing_comma)
    \o <<TokenOf(Sym("BraceClose")), TokenOf(NewLine)>>

\* The lists of up to MaxArms arms.
ArmLists == UNION {[1..n -> Arms] : n \in 0..MaxArms}

\* Parser::new on the tokens of a match.
StatementInit ==
    /\ TablesIdle
    /\ CodegenIdle
    /\ LexIdle
    /\ parser_out \in {ParserOutput(Parser_new(MatchTokens(arms, trailing_comma)),
                                    None, << >>) :
                           arms \in ArmLists, trailing_comma \in BOOLEAN}
    /\ joined = None
    /\ file_result = None
    /\ parse_pc = "ready"

\* Parser::parse_statement on the new parser, as tests::parse_match calls it.
ParseStatement ==
    /\ lex_pc = "idle"
    /\ parse_pc = "ready"
    /\ parser_out' = parse_statement(parser_out.p)
    /\ parse_pc' = "statement"
    /\ UNCHANGED <<tableVars, pipelineVars, codegenVars, lexVars, joined, file_result>>

StatementNext == ParseStatement

StatementSpec == StatementInit /\ [][StatementNext]_vars

\* ------------------------------------------------------------------ join points

\* The most diagnostics a ParserOutput of the join points carries.
MaxJoinDiagnostics == 2

\* The parsers of the join points: a new one and the one after a token.
JoinParsers ==
    {Parser_new(<<TokenOf(Identifier(<<"a">>)), TokenOf(NewLine)>>),
     consume(Parser_new(<<TokenOf(Identifier(<<"a">>)), TokenOf(NewLine)>>))}

\* The diagnostics of the join points, told apart by their column.
JoinDiagnostics ==
    {Diagnostic_new_error_simple(<<"m">>, SourcePosition("test", 0, column)) :
         column \in 0..1}

\* The values a ParserOutput of the join points holds.
JoinValues == {IntegerLiteral(0), IntegerLiteral(1)}

\* The ParserOutputs of the join points.
JoinOutputs ==
    {ParserOutput(p, value, found) :
         p \in JoinParsers,
         value \in {None} \cup {Some(v) : v \in JoinValues},
         found \in UNION {[1..n -> JoinDiagnostics] : n \in 0..MaxJoinDiagnostics}}

\* A ParserOutput some rule returned.
JoinInit ==
    /\ TablesIdle
    /\ CodegenIdle
    /\ LexIdle
    /\ parser_out \in JoinOutputs
    /\ joined = None
    /\ file_result = None
    /\ parse_pc = "ready"

\* parser_out.and_then(f), f returning next when it is run.
AndThenOutput ==
    /\ lex_pc = "idle"
    /\ parse_pc = "ready"
    /\ \E next \in JoinOutputs :
           /\ next.p.offset >= parser_out.p.offset
           /\ parser_out' = and_then(parser_out, next)
           /\ joined' = Some([op |-> "and_then", a |-> parser_out, next |-> next])
    /\ parse_pc' = "joined"
    /\ UNCHANGED <<tableVars, pipelineVars, codegenVars, lexVars, file_result>>

\* parser_out.map(f), f returning value when it is run.
MapOutput ==
    /\ lex_pc = "idle"
    /\ parse_pc = "ready"
    /\ \E value \in JoinValues :
           /\ parser_out' = map(parser_out, value)
           /\ joined' = Some([op |-> "map", a |-> parser_out, next |-> value])
    /\ parse_pc' = "joined"
    /\ UNCHANGED <<tableVars, pipelineVars, codegenVars, lexVars, file_result>>

\* parser_out.transmute_error()
TransmuteErrorOutput ==
    /\ lex_pc = "idle"
    /\ parse_pc = "ready"
    /\ parser_out' = transmute_error(parser_out)
    /\ joined' = Some([op |-> "transmute_error", a |-> parser_out, next |-> None])
    /\ parse_pc' = "joined"
    /\ UNCHANGED <<tableVars, pipelineVars, codegenVars, lexVars, file_result>>

JoinNext == AndThenOutput \/ MapOutput \/ TransmuteErrorOutput

JoinSpec == JoinInit /\ [][JoinNext]_vars

\* ------------------------------------------------------------------ claims: tables

\* The <<key, element>> pairs of a map of sets.
Pairs(m) == UNION {{<<k, e>> : e \in m[k]} : k \in DOMAIN m}

FlaggedWith(flag) == {<<d[1], d[2]>> : d \in {x \in declared : x[3] = flag}}

AskedFiles(pairs) == {a[1] : a \in pairs}

\* C4, the state part: imported_items holds, under each imported file, exactly
\* the items the processed imports asked from that file.
C4_ItemsAreTheAskedOnes ==
    /\ Pairs(tables.modules.imported_items) = asked
    /\ DOMAIN tables.modules.imported_items = AskedFiles(asked)

\* C4, the step part: an update leaves every existing parsing_status entry as
\* it was, whatever its value, and inserts each newly imported file with false.
C4_StatusInsertedIfAbsent ==
    LET before == tables.modules.parsing_status
        after == tables'.modules.parsing_status
    IN  /\ \A file \in DOMAIN before : file \in DOMAIN after /\ after[file] = before[file]
        /\ \A file \in (DOMAIN after) \ (DOMAIN before) :
              after[file] = FALSE /\ file \in AskedFiles(asked')
        /\ AskedFiles(asked') \subseteq DOMAIN after

\* C4: ModuleTable.update inserts an imported file into parsing_status with
\* false only if it is absent, and imported_items[F] is exactly the set of the
\* items any processed import asked from F.
C4_ImportsRecorded ==
    []C4_ItemsAreTheAskedOnes /\ [][C4_StatusInsertedIfAbsent]_vars

\* C4: two imports of a file that was already marked parsed have been processed.
C4_Witness ==
    /\ updates = 2
    /\ \E file \in DOMAIN tables.modules.imported_items :
          /\ tables.modules.parsing_status[file] = TRUE
          /\ tables.modules.imported_items[file] = {"Animal", "Creature"}

\* C5: n is in exported_items[m] iff a declaration named n processed under m
\* has Export, and in public_items[m] iff one has Public; nothing is recorded
\* under another module's key.
C5_FlagsRecorded ==
    /\ Pairs(tables.modules.exported_items) = FlaggedWith("Export")
    /\ Pairs(tables.modules.public_items) = FlaggedWith("Public")

\* C5: one module declared a name with Export only and a name with Public only.
C5_Witness ==
    /\ DOMAIN tables.modules.exported_items = {"main"}
    /\ DOMAIN tables.modules.public_items = {"main"}
    /\ "Status" \in tables.modules.exported_items["main"]
    /\ "Status" \notin tables.modules.public_items["main"]
    /\ "do_nothing" \in tables.modules.public_items["main"]
    /\ "do_nothing" \notin tables.modules.exported_items["main"]

\* A map of sets after a step holds every key and every element it held before.
MapGrows(before, after) ==
    \A k \in DOMAIN before : k \in DOMAIN after /\ before[k] \subseteq after[k]

\* C6: every table only grows: type_list, types_used_by_module[m],
\* imported_items[m], public_items[m] and exported_items[m] after a call are
\* supersets of their values before it, and no key is removed.
C6_TablesOnlyGrow ==
    [][/\ tables.types.type_list \subseteq tables'.types.type_list
       /\ MapGrows(tables.types.types_used_by_module, tables'.types.types_used_by_module)
       /\ MapGrows(tables.modules.imported_items, tables'.modules.imported_items)
       /\ MapGrows(tables.modules.public_items, tables'.modules.public_items)
       /\ MapGrows(tables.modules.exported_items, tables'.modules.exported_items)
       /\ DOMAIN tables.modules.parsing_status \subseteq DOMAIN tables'.modules.parsing_status
      ]_vars

\* C7: ParsingTables.update(ast, m) twice in a row leaves the tables in the
\* state reached after the first call: for every table state an update is made
\* from, and every AST and name of that update, a second call changes nothing.
C7_UpdateIdempotent ==
    updates < MaxUpdates =>
        \A ast \in ASTs, module_name \in Modules :
            LET once == ParsingTables_update(tables, ast, module_name)
            IN  ParsingTables_update(once, ast, module_name) = once

\* C7: after two calls the tables are what one call with the test program gives.
C7_Witness ==
    /\ updates = 2
    /\ tables = ParsingTables_update(ParsingTables_new, TestProgram, "main")

\* C8: type_list is closed under sub-container extraction: with Array(T) it
\* holds T.
C8_TypeListClosed ==
    \A t \in tables.types.type_list :
        Head(t) = "Array" => Tail(t) \in tables.types.type_list

\* C9: after TypeTable.update(ast, m), types_used_by_module[m] holds the return
\* type and every argument type of every function of ast, every struct and enum
\* field type and every declared variable type.
C9_UsedTypesComplete ==
    \A m \in DOMAIN signature :
        signature[m] \subseteq Get(tables.types.types_used_by_module, m)

\* C10: after TypeTable.update(ast, m), type_list holds Custom(name) of every
\* struct and enum, every field type, every function's return and argument
\* types and every declared variable type at any depth of Conditional.
C10_TypeListComplete == mentioned \subseteq tables.types.type_list

\* C10: a variable declared at the deepest Conditional level has been recorded,
\* along with a struct and its fields.
C10_Witness ==
    /\ SharedOfDepth(Auto, MaxNest) \in tables.types.type_list
    /\ Custom("Animal") \in tables.types.type_list
    /\ ArrayOfDepth(String, MaxArrayDepth) \in tables.types.type_list

\* ------------------------------------------------------------------ claims: pipeline

\* Every file a run can ask for exists and parses.
AllFilesParse == DOMAIN files = Paths

NoneUnparsed ==
    \A M \in DOMAIN tables.modules.parsing_status : tables.modules.parsing_status[M]

\* C1: module scheduling terminates: when every module file exists and parses,
\* parse_all_reachable eventually returns, with no key of parsing_status false.
C1_SchedulingTerminates == AllFilesParse => <>(pc = "ok" /\ NoneUnparsed)

\* C2: each module, the entry point included, is read and parsed by
\* file_to_ast at most once, and when aggregation completes every referenced
\* module has been parsed exactly once.
C2_ParsedAtMostOnce ==
    /\ \A path \in Paths : parsed[path] <= 1
    /\ pc = "ok" =>
          /\ parsed[entrypoint_filepath] = 1
          /\ \A M \in DOMAIN tables.modules.parsing_status : parsed[Path_new(M)] = 1

\* C3, at the return: every module an import named is a key of parsing_status
\* with value true.
C3_ImportsParsedAtOk ==
    pc = "ok" =>
        \A file \in AskedFiles(asked) :
            /\ file \in DOMAIN tables.modules.parsing_status
            /\ tables.modules.parsing_status[file]

\* C3, at each step: parsing_status[M] turns from false to true at the step
\* that feeds M's AST to the tables, and a true entry stays true.
C3_StatusFlipsWhenFed ==
    \A M \in DOMAIN tables.modules.parsing_status :
        LET before == tables.modules.parsing_status[M]
            after == tables'.modules.parsing_status[M]
            fed == pc = "running" /\ parsed'[Path_new(M)] = parsed[Path_new(M)] + 1
        IN  /\ M \in DOMAIN tables'.modules.parsing_status
            /\ before => after
            /\ (~before /\ fed) => after
            /\ (~before /\ after) => fed

\* C3: when parse_all_reachable returns Ok every imported module has
\* parsing_status true, and parsing_status[M] changes from false to true exactly
\* once, at the step where M's AST is fed to the tables.
C3_StatusTrueOnceFed == []C3_ImportsParsedAtOk /\ [][C3_StatusFlipsWhenFed]_vars

\* ------------------------------------------------------------------ claims: codegen_c

\* The Array types in the list or nested at any depth inside an Array type of
\* the list.
ArrayTypesOf(types) ==
    UNION {{SubSeq(t, k, Len(t)) : k \in {k \in 1..Len(t) : t[k] = "Array"}} :
              t \in {t \in types : Head(t) = "Array"}}

ThreeArrays == {Array(Integer), Array(Array(String))}
SixArrays == ThreeArrays \cup {Array(Array(Array(Boolean)))}

\* C11: when generate_templated_libs returns, generated_libs holds exactly one
\* instance for every distinct Array type that is in type_list or nested inside
\* an Array type of type_list, and none twice: 3 instances for {Array<Int>,
\* Array<Array<String>>}, 6 with Array<Array<Array<Bool>>> added.
C11_OneInstancePerArrayType ==
    codegen_pc = "done" =>
        LET wanted == ArrayTypesOf(type_table.type_list)
        IN  /\ {Array(generated_libs[i].type_) : i \in DOMAIN generated_libs} = wanted
            /\ Len(generated_libs) = Cardinality(wanted)
            /\ type_table.type_list = ThreeArrays => Len(generated_libs) = 3
            /\ type_table.type_list = SixArrays => Len(generated_libs) = 6

\* C11: the call on the three array types of the unit test returned, with the
\* header of the innermost Bool array among its six instances.
C11_Witness ==
    /\ codegen_pc = "done"
    /\ type_table.type_list = SixArrays
    /\ \E i \in DOMAIN generated_libs :
          generated_libs[i].header_name = <<"gen_", "bool", "_array.h">>
    /\ \E i \in DOMAIN generated_libs :
          generated_libs[i].header_name = <<"gen_", "bool", "array", "array", "_array.h">>

\* ------------------------------------------------------------------ claims: lexer

\* C12 (state part): when Lexer::lex has returned, the token stream is not
\* empty and its last token is a NewLine that stands for no character of the
\* text.
C12_EndsInNewLine ==
    lex_pc = "done" =>
        /\ lexer.token_stream # << >>
        /\ lexer.token_stream[Len(lexer.token_stream)].symbol = NewLine
        /\ Len(starts) = Len(lexer.token_stream)
        /\ starts[Len(starts)] = 0
        /\ \A k \in 1..Len(starts) - 1 : starts[k] > 0

\* C12 (step part): the step on which Lexer::lex returns adds exactly one
\* token, a NewLine, after the tokens of the text.
C12_OneTokenAdded ==
    (lex_pc = "lexing" /\ lex_pc' = "done") =>
        /\ Len(lexer'.token_stream) = Len(lexer.token_stream) + 1
        /\ SubSeq(lexer'.token_stream, 1, Len(lexer.token_stream)) = lexer.token_stream
        /\ lexer'.token_stream[Len(lexer'.token_stream)].symbol = NewLine

\* C12: for every text, the empty text and a text that ends in a line break
\* included, Lexer::lex leaves a non-empty token stream whose last token is
\* the one NewLine it added after the tokens of the text.
C12_TrailingNewLine == []C12_EndsInNewLine /\ [][C12_OneTokenAdded]_vars

\* C12: a text that ends in a line break has been lexed: its own NewLine is
\* followed by the added one.
C12_Witness ==
    /\ lex_pc = "done"
    /\ code = <<"a", NL>>
    /\ Len(lexer.token_stream) = 3
    /\ lexer.token_stream[2].symbol = NewLine
    /\ lexer.token_stream[3].symbol = NewLine

\* The line of the i-th character of a text: the line breaks before it.
LineOf(text, i) == Cardinality({j \in 1..i - 1 : text[j] = NL})

\* The column of the i-th character of a text: the characters before it on
\* its line, a tab counting as four.
ColumnOf(text, i) ==
    LET breaks == {j \in 1..i - 1 : text[j] = NL}
        from == IF breaks = {}
                THEN 1
                ELSE (CHOOSE j \in breaks : \A b \in breaks : b <= j) + 1
    IN  (i - from) + 3 * Cardinality({j \in from..i - 1 : text[j] = TAB})

\* C13: every token emitted for a character of the text carries the line and
\* the column of the first character of its lexeme, a tab counting as four
\* columns.
C13_PositionsAreLexemeStarts ==
    \A k \in DOMAIN starts :
        starts[k] > 0 =>
            /\ lexer.token_stream[k].pos.line = LineOf(code, starts[k])
            /\ lexer.token_stream[k].pos.column = ColumnOf(code, starts[k])

\* The length the specification gives for the cap on string literals.
FiveMiB == 5 * 1024 * 1024

\* C14: Lexer::lex raises the fatal string-too-long error only for a literal of
\* more than 5 MiB of content (a literal is shorter than the text around it),
\* and a literal of at most 5 MiB of content lexes to one StringLiteral token
\* that carries the content.
C14_StringCapIsFiveMiB ==
    /\ lex_pc = "panic" => Len(code) > FiveMiB
    /\ \A n \in {LEXER_STRING_LEN_LIMIT, LEXER_STRING_LEN_LIMIT + 1} :
          (n <= FiveMiB /\ code = Literal(n) /\ lex_pc = "done") =>
              /\ Len(lexer.token_stream) = 2
              /\ lexer.token_stream[1].symbol = StringLiteral([i \in 1..n |-> "a"])

\* The text holds one double quote, outside any comment: a string literal
\* that the end of the text cuts short.
Unterminated(text) ==
    /\ Cardinality({i \in DOMAIN text : text[i] = Quote}) = 1
    /\ \A i \in DOMAIN text : text[i] # "#"

\* C15: when Lexer::lex returns from a text with an unterminated string
\* literal, its diagnostics hold an error for the literal.
C15_UnterminatedRecorded ==
    (lex_pc = "done" /\ Unterminated(code)) =>
        \E i \in DOMAIN lexer.diagnostics :
            /\ lexer.diagnostics[i].level = "Error"
            /\ lexer.diagnostics[i].message[1] # "Unexpected symbol in program"

\* ------------------------------------------------------------------ claims: parser

\* The levels of the precedence table of the expression parser.
Level ==
    ("<" :> 3) @@ (">" :> 3) @@ ("+" :> 4) @@ ("-" :> 4)
    @@ ("*" :> 5) @@ ("/" :> 5) @@ ("%" :> 5)

\* The BinaryOperator written op.
OperatorOf ==
    ("+" :> "Add") @@ ("-" :> "Subtract") @@ ("*" :> "Multiply") @@ ("/" :> "Divide")
    @@ ("%" :> "Modulo") @@ ("<" :> "LessThan") @@ (">" :> "GreaterThan")

\* What `a op1 b op2 c` is to parse as.
Nested(a, op1, b, op2, c) ==
    IF Level[op1] >= Level[op2]
    THEN BinaryOp(BinaryOp(a, OperatorOf[op1], b), OperatorOf[op2], c)
    ELSE BinaryOp(a, OperatorOf[op1], BinaryOp(b, OperatorOf[op2], c))

\* C16: parse_expr(0) parses `a op1 b op2 c` as (a op1 b) op2 c when the level
\* of op1 is at least that of op2 and as a op1 (b op2 c) otherwise, without a
\* diagnostic, and `add(2, 5 * a)` as the call of add with the arguments 2 and
\* 5 * a.
C16_PrecedenceAndAssociativity ==
    parse_pc = "expr" =>
        /\ \A op1 \in OperatorChars, op2 \in OperatorChars :
              /\ code = InfixText("a", op1, "b", op2, "c") =>
                    /\ parser_out.output =
                           Some(Nested(Variable(<<"a">>), op1, Variable(<<"b">>), op2,
                                       Variable(<<"c">>)))
                    /\ parser_out.diagnostics = << >>
              /\ code = SpacedInfixText("a", op1, "2", op2, "c") =>
                    /\ parser_out.output =
                           Some(Nested(Variable(<<"a">>), op1, IntegerLiteral(2), op2,
                                       Variable(<<"c">>)))
                    /\ parser_out.diagnostics = << >>
        /\ code = CallText =>
              /\ parser_out.output =
                     Some(FunctionCallExpr(<<"a", "d", "d">>,
                              <<IntegerLiteral(2),
                                BinaryOp(IntegerLiteral(5), "Multiply", Variable(<<"a">>))>>))
              /\ parser_out.diagnostics = << >>

\* a + b * c has been parsed with the product as the right operand of the sum.
C16_Witness ==
    /\ parse_pc = "expr"
    /\ code = InfixText("a", "+", "b", "*", "c")
    /\ parser_out.output =
           Some(BinaryOp(Variable(<<"a">>), "Add",
                         BinaryOp(Variable(<<"b">>), "Multiply", Variable(<<"c">>))))

\* C17: parse_all returns on every token stream Lexer::lex produces: no call
\* of it ends in a panic.
C17_ParseAllReturns == parse_pc = "all" => ~parser_out.p.panic

\* The diagnostics of the first top-level item parse_all attempts on the
\* tokens of the lexer.
FirstItemDiagnostics ==
    parse_top_level_declaration(
        skip_whitespace(Parser_new(lexer.token_stream))).diagnostics

\* C18: parse_all returns Some list, and its diagnostics contain every
\* diagnostic of the top-level items it attempted; here, those of the first
\* item of a text that has one.
C18_NoDiagnosticSuppressed ==
    (parse_pc = "all" /\ ~parser_out.p.panic /\ code \in ProgramTexts) =>
        /\ parser_out.output # None
        /\ Range(FirstItemDiagnostics) \subseteq Range(parser_out.diagnostics)

\* C19: a function parses with and without its metadata block and with and
\* without its contracts block, an absent block giving empty lists.
C19_BlocksIndependentlyOptional ==
    (parse_pc = "all" /\ code \in FunctionTexts) =>
        /\ parser_out.output # None
        /\ Len(parser_out.output[1]) = 1
        /\ parser_out.output[1][1].kind = "FunctionDeclaration"
        /\ code \in {FnPlainText, FnContractsText} =>
              /\ parser_out.output[1][1].properties = << >>
              /\ parser_out.output[1][1].permissions = << >>
        /\ code \in {FnPlainText, FnMetadataText} =>
              parser_out.output[1][1].contracts = << >>
        /\ code \in {FnContractsText, FnBothText} =>
              Len(parser_out.output[1][1].contracts) = 1

\* C20: the variants of an enum written without a type are parsed as fields of
\* type Void without a diagnostic, the last one followed by a comma or not.
C20_TypelessVariantsAreVoid ==
    (parse_pc = "all" /\ code \in EnumTexts) =>
        /\ parser_out.diagnostics = << >>
        /\ parser_out.output # None
        /\ Len(parser_out.output[1]) = 1
        /\ parser_out.output[1][1].fields =
               <<Field(<<"A">>, Void), Field(<<"B">>, Void)>>

\* ------------------------------------------------------------------ claims: recovery

\* The first node of the list parse_all returned.
FirstNode == parser_out.output[1][1]

\* C21: a line no arm knows inside the @metadata block of a struct gives a
\* diagnostic at the position of its token; the lines after it still give
\* their properties and traits, and the struct is a StructDeclaration.
C21_MetadataRecovery ==
    (parse_pc = "all" /\ code = MetadataUnknownText) =>
        /\ parser_out.output # None
        /\ Len(parser_out.output[1]) = 1
        /\ FirstNode.kind = "StructDeclaration"
        /\ FirstNode.properties = <<<<"P", "u", "b", "l", "i", "c">>>>
        /\ FirstNode.traits = <<<<"E", "q">>>>
        /\ \E i \in DOMAIN lexer.token_stream :
              /\ lexer.token_stream[i].symbol = Identifier(<<"x">>)
              /\ \E d \in Range(parser_out.diagnostics) :
                    d.position = lexer.token_stream[i].pos

\* The struct with the unknown metadata line has been parsed, with one
\* diagnostic and with the property of the line after it.
C21_Witness ==
    /\ parse_pc = "all"
    /\ code = MetadataUnknownText
    /\ Len(parser_out.diagnostics) = 1
    /\ parser_out.output # None
    /\ FirstNode.properties # << >>

\* C22: the parser never reads tokens[offset] with offset at or past the end
\* of the tokens Lexer::lex produced: no call of parse_expr or parse_all ends
\* in the panic of an index out of bounds.
C22_NeverPastTheBuffer ==
    parse_pc \in {"expr", "all"} =>
        ~(parser_out.p.panic /\ parser_out.p.offset >= Len(parser_out.p.tokens))

\* The contract `kind: (a > n, "message")`.
ContractOf(kind, n, message) ==
    FunctionContract(kind, BinaryOp(Variable(<<"a">>), "GreaterThan", IntegerLiteral(n)),
                     <<message>>)

\* C23: a contract line that does not parse gives a diagnostic, and the
\* well-formed contracts on the lines after it are the contracts of the
\* function, in the order of the text.
C23_LaterContractsParsed ==
    (parse_pc = "all" /\ code \in {ContractsNoCommaText, ContractsNoParenText}) =>
        /\ parser_out.diagnostics # << >>
        /\ parser_out.output # None
        /\ Len(parser_out.output[1]) = 1
        /\ code = ContractsNoCommaText =>
              FirstNode.contracts = <<ContractOf("Output", 1, "n")>>
        /\ code = ContractsNoParenText =>
              FirstNode.contracts = <<ContractOf("Output", 1, "n"), ContractOf("Input", 2, "o")>>

\* C24: a list without items gives the empty list without a diagnostic, and a
\* comma after the last item of a list is accepted without a diagnostic: for
\* the parameters of a function and for the arguments of a call.
C24_EmptyAndTrailingLists ==
    /\ (parse_pc = "all" /\ code \in {NoParametersText, TrailingCommaText}) =>
          /\ parser_out.diagnostics = << >>
          /\ parser_out.output # None
          /\ Len(parser_out.output[1]) = 1
          /\ FirstNode.args = IF code = NoParametersText
                              THEN << >>
                              ELSE <<Field(<<"a">>, Integer)>>
    /\ (parse_pc = "expr" /\ code \in ListTexts) =>
          /\ parser_out.diagnostics = << >>
          /\ parser_out.output =
                 Some(FunctionCallExpr(<<"f">>, IF code = NoArgumentsText
                                                THEN << >>
                                                ELSE <<Variable(<<"a">>)>>))

\* ------------------------------------------------------------------ claims: statements

\* The condition the Branch of an arm is to have.
ConditionOf(pattern) ==
    CASE pattern = "literal" -> Some(IntegerLiteral(0))
      [] pattern = "name" -> Some(Variable(<<"y">>))
      [] pattern = "wildcard" -> None

\* The computations the Branch of an arm is to have.
ComputationsOf(body) ==
    IF body = "expression"
    THEN <<StatementReturn(IntegerLiteral(42))>>
    ELSE <<StatementReturn(IntegerLiteral(43))>>

\* The branches the arms are to give.
BranchesOf(arms) ==
    [i \in DOMAIN arms |->
        BranchOf(ConditionOf(arms[i].pattern), ComputationsOf(arms[i].body))]

C26_JoinsKeepDiagnostics ==
    parse_pc = "joined" =>
        /\ (joined[1].op = "and_then" /\ joined[1].a.output = None) =>
               /\ parser_out.output = None
               /\ parser_out.p = joined[1].a.p
               /\ parser_out.diagnostics = joined[1].a.diagnostics
        /\ (joined[1].op = "and_then" /\ joined[1].a.output # None) =>
               /\ parser_out.output = joined[1].next.output
               /\ parser_out.p = joined[1].next.p
               /\ parser_out.diagnostics =
                      joined[1].a.diagnostics \o joined[1].next.diagnostics
        /\ joined[1].op \in {"map", "transmute_error"} =>
               parser_out.diagnostics = joined[1].a.diagnostics

\* and_then has joined an a of one diagnostic with an f of another one, and
\* the result has the two, the one of a first.
C26_Witness ==
    /\ parse_pc = "joined"
    /\ joined[1].op = "and_then"
    /\ joined[1].a.output # None
    /\ Len(joined[1].a.diagnostics) = 1
    /\ Len(joined[1].next.diagnostics) = 1
    /\ joined[1].a.diagnostics # joined[1].next.diagnostics
    /\ parser_out.diagnostics = joined[1].a.diagnostics \o joined[1].next.diagnostics

\* ------------------------------------------------------------------ claims: reports

\* C27: every diagnostic the lexer recorded for a file is in what file_to_ast
\* reports, the message of the Err it returns or the non-fatal errors on
\* stderr.
C27_LexerDiagnosticsSurfaced ==
    parse_pc = "file" =>
        \A i \in DOMAIN lexer.diagnostics :
            lexer.diagnostics[i] \in
                Range(file_result[1].message) \cup Range(file_result[1].stderr)

\* ------------------------------------------------------------------ claims: recursion

\* C28: the recursion guard of parse_expr measures nesting: no text whose
\* expressions nest less than RecursionLimit deep makes parse_expr raise the
\* fatal error, however many expressions the parser has parsed before.
C28_GuardMeasuresDepth ==
    parse_pc \in {"expr", "all", "file"} =>
        ~(parser_out.p.panic /\ parser_out.p.recursion_counter > RecursionLimit)

\* ------------------------------------------------------------------ claims: index access

\* C29: an index access binds to the operand just before its `[`:
\* parse_expr(0) parses `a op b[i]` as BinaryOp(a, op, IndexAccess(b, i)) for
\* every binary operator op.
C29_IndexBindsToOperand ==
    parse_pc = "expr" =>
        \A op \in OperatorChars :
            code = IndexText("a", op, "b", "i") =>
                parser_out.output =
                    Some(BinaryOp(Variable(<<"a">>), OperatorOf[op],
                                  IndexAccess(Variable(<<"b">>), Variable(<<"i">>))))

\* ------------------------------------------------------------------ claims: failures

\* C30: no rule fails silently: a ParserOutput without output that a rule
\* returned has at least one diagnostic; here, the one of
\* parse_top_level_declaration, which for a function is the one of
\* parse_function.
C30_NoSilentFailure ==
    (parse_pc = "declaration" /\ ~parser_out.p.panic) =>
        (parser_out.output = None => parser_out.diagnostics # << >>)

====
